---- MODULE Spec2Model ----
(***************************************************************************)
(* Model of the ambara node-graph engine.                                  *)
(*                                                                         *)
(* Part 1: the graph store (src/graph/structure.rs), the port-type         *)
(* compatibility relation (src/core/types.rs) and the topology analyser    *)
(* (src/graph/topology.rs).                                                *)
(***************************************************************************)
EXTENDS Integers, Sequences, FiniteSets, TLC

(***************************************************************************)
(* Bounds of the model.                                                    *)
(***************************************************************************)
\* Number of node ids handed out by NodeId::new() in one run.
MaxNodes == 3
\* Number of connection ids handed out by ConnectionId::new() in one run.
MaxConns == 2
\* Nesting depth of Array(..)/Map(..) port types drawn for custom filters.
MaxTypeDepth == 1

NodeIds == 1..MaxNodes

VARIABLES nodes, connections, nextNodeId, nextConnId, ret

\* The result cache, the clock it reads, the execution engine's run, and the
\* number of calls made on the cache or the engine.
VARIABLES cache, now, eng, calls

engineVars == <<cache, now, eng, calls>>

\* The memory tracker of the chunked substrate with the threads using it, the
\* tile iterator or chunked run in progress, the validation pipeline's run, and
\* the mutexes of a ResultCache with the threads calling it.
VARIABLES tracker, chunked, validation, locks

substrateVars == <<tracker, chunked, validation, locks>>

vars == <<nodes, connections, nextNodeId, nextConnId, ret, cache, now, eng, calls,
          tracker, chunked, validation, locks>>

\* No memory tracker, no chunked run and no validation run exist.
NoSubstrate ==
    /\ tracker = <<>>
    /\ chunked = <<>>
    /\ validation = <<>>
    /\ locks = <<>>

\* No cache and no engine have been created: the graph is used on its own.
NoEngine ==
    /\ cache = <<>>
    /\ now = 0
    /\ eng = <<>>
    /\ calls = 0
    /\ NoSubstrate

(***************************************************************************)
(* Generic helpers.                                                        *)
(***************************************************************************)
Range(s) == {s[i] : i \in 1..Len(s)}

\* All orderings of a finite set, as sequences without repetition.
RECURSIVE Orderings(_)
Orderings(S) ==
    IF S = {} THEN {<<>>}
    ELSE UNION {{<<x>> \o rest : rest \in Orderings(S \ {x})} : x \in S}

\* Vec::remove(pos)
RemoveAt(s, pos) == SubSeq(s, 1, pos - 1) \o SubSeq(s, pos + 1, Len(s))

\* Iterator::position
RECURSIVE PositionFrom(_, _, _)
PositionFrom(s, x, i) ==
    IF i > Len(s) THEN 0
    ELSE IF s[i] = x THEN i
    ELSE PositionFrom(s, x, i + 1)

MaxOf(S, dflt) == IF S = {} THEN dflt ELSE CHOOSE m \in S : \A x \in S : x <= m

(***************************************************************************)
(* PortType and PortType::compatible_with (core/types.rs).                 *)
(* A port type is a tuple: <<kind>> or <<"Array", inner>>, <<"Map", inner>>*)
(***************************************************************************)
BaseKinds ==
    {"Image", "Integer", "Float", "String", "Boolean", "Color", "Vector2", "Vector3", "Any"}

RECURSIVE PortTypesUpTo(_)
PortTypesUpTo(d) ==
    IF d = 0 THEN {<<k>> : k \in BaseKinds}
    ELSE LET inner == PortTypesUpTo(d - 1)
         IN  {<<k>> : k \in BaseKinds}
               \cup {<<"Array", t>> : t \in inner}
               \cup {<<"Map", t>> : t \in inner}

PortTypes == PortTypesUpTo(MaxTypeDepth)

\* A plausible slip: the Integer/Float widening accepted in both directions.
RECURSIVE compatible_with_symmetric(_, _)
compatible_with_symmetric(self, other) ==
    IF self[1] = "Any" \/ other[1] = "Any" THEN TRUE
    ELSE IF {self[1], other[1]} = {"Integer", "Float"} THEN TRUE
    ELSE IF self[1] = "Array" /\ other[1] = "Array"
        THEN compatible_with_symmetric(self[2], other[2])
    ELSE IF self[1] = "Map" /\ other[1] = "Map"
        THEN compatible_with_symmetric(self[2], other[2])
    ELSE self = other

RECURSIVE compatible_with(_, _)
compatible_with(self, other) ==
    IF self[1] = "Any" \/ other[1] = "Any" THEN TRUE
    ELSE IF self[1] = "Integer" /\ other[1] = "Float" THEN TRUE
    ELSE IF self[1] = "Array" /\ other[1] = "Array" THEN compatible_with(self[2], other[2])
    ELSE IF self[1] = "Map" /\ other[1] = "Map" THEN compatible_with(self[2], other[2])
    ELSE self = other

(***************************************************************************)
(* Filter metadata (core/node.rs) and the filters used in the model.       *)
(***************************************************************************)
PortDefinition(name, port_type) == [name |-> name, port_type |-> port_type]

NodeMetadata(id, inputs, outputs) == [id |-> id, inputs |-> inputs, outputs |-> outputs]

\* filters/builtin/conversion.rs: ToString
to_string ==
    NodeMetadata("to_string",
                 <<PortDefinition("value", <<"Any">>)>>,
                 <<PortDefinition("result", <<"String">>)>>)

\* filters/builtin/math.rs: Add
add ==
    NodeMetadata("add",
                 <<PortDefinition("a", <<"Float">>), PortDefinition("b", <<"Float">>)>>,
                 <<PortDefinition("result", <<"Float">>)>>)

Filters == {to_string, add}

\* A user-defined FilterNode with one input and one output of arbitrary types.
custom_filter(in_type, out_type) ==
    NodeMetadata("custom",
                 <<PortDefinition("value", in_type)>>,
                 <<PortDefinition("result", out_type)>>)

\* Port names offered to connect as source port and as target port. "result" is
\* an output of every filter of the model; "value" is an input of to_string only
\* and "a", "b" are inputs of add only, so a target port may not exist.
FromPortNames == {"result"}
ToPortNames == {"value", "a", "b"}

\* NodeMetadata::get_input / get_output: Option as a sequence of length 0 or 1.
get_input(metadata, name) ==
    LET found == SelectSeq(metadata.inputs, LAMBDA p : p.name = name)
    IN  IF found = <<>> THEN <<>> ELSE <<Head(found)>>

get_output(metadata, name) ==
    LET found == SelectSeq(metadata.outputs, LAMBDA p : p.name = name)
    IN  IF found = <<>> THEN <<>> ELSE <<Head(found)>>

(***************************************************************************)
(* ProcessingGraph (graph/structure.rs).                                   *)
(*   nodes       : IndexMap<NodeId, GraphNode> as a sequence in insertion  *)
(*                 order of records [id, filter]                           *)
(*   connections : Vec<Connection> of records [id, from, to]               *)
(***************************************************************************)
\* GraphNode::new: no parameter override yet.
GraphNode(id, filter) == [id |-> id, filter |-> filter, parameters |-> {}]

Endpoint(node_id, port_name) == [node_id |-> node_id, port_name |-> port_name]

Connection(id, from, to) == [id |-> id, from |-> from, to |-> to]

node_ids == [i \in 1..Len(nodes) |-> nodes[i].id]

has_node(id) == \E i \in 1..Len(nodes) : nodes[i].id = id

\* get_node: Option as a sequence of length 0 or 1.
get_node(id) == SelectSeq(nodes, LAMBDA n : n.id = id)

connections_from(node_id) == SelectSeq(connections, LAMBDA c : c.from.node_id = node_id)

connections_to(node_id) == SelectSeq(connections, LAMBDA c : c.to.node_id = node_id)

\* A plausible slip: the source endpoint is compared instead of the target endpoint.
is_input_connected_from(node_id, port) ==
    \E i \in 1..Len(connections) :
        connections[i].from.node_id = node_id /\ connections[i].from.port_name = port

is_input_connected(node_id, port) ==
    \E i \in 1..Len(connections) :
        connections[i].to.node_id = node_id /\ connections[i].to.port_name = port

\* IndexMap::insert: a present key keeps its position and gets the new value.
IndexMapInsert(map, node) ==
    IF \E i \in 1..Len(map) : map[i].id = node.id
    THEN [i \in 1..Len(map) |-> IF map[i].id = node.id THEN node ELSE map[i]]
    ELSE Append(map, node)

\* IndexMap::swap_remove: the last entry is moved into the hole.
IndexMapSwapRemove(map, id) ==
    LET pos == PositionFrom([i \in 1..Len(map) |-> map[i].id], id, 1)
    IN  IF pos = 0 THEN map
        ELSE IF pos = Len(map) THEN SubSeq(map, 1, Len(map) - 1)
        ELSE [i \in 1..(Len(map) - 1) |-> IF i = pos THEN map[Len(map)] ELSE map[i]]

\* IndexMap::shift_remove: the entries after the hole move up by one.
IndexMapShiftRemove(map, id) ==
    LET pos == PositionFrom([i \in 1..Len(map) |-> map[i].id], id, 1)
    IN  IF pos = 0 THEN map ELSE RemoveAt(map, pos)

\* BFS of is_reachable; Succ(n) is the sequence of nodes pushed for n.
RECURSIVE ReachLoop(_, _, _)
ReachLoop(queue, visited, target) ==
    IF queue = <<>> THEN FALSE
    ELSE LET current == Head(queue)
         IN  IF current = target THEN TRUE
             ELSE IF current \notin visited
                 THEN ReachLoop(
                        Tail(queue) \o [i \in 1..Len(connections_from(current)) |->
                                            connections_from(current)[i].to.node_id],
                        visited \cup {current}, target)
                 ELSE ReachLoop(Tail(queue), visited, target)

\* A plausible slip: a node is not counted as reachable from itself.
is_reachable_proper(start, target) ==
    IF start = target THEN FALSE
    ELSE ReachLoop(<<start>>, {}, target)

is_reachable(start, target) ==
    IF start = target THEN TRUE
    ELSE ReachLoop(<<start>>, {}, target)

\* A plausible slip: the arguments of is_reachable the other way round.
would_create_cycle_swapped(from_node, to_node) == is_reachable(from_node, to_node)

would_create_cycle(from_node, to_node) == is_reachable(to_node, from_node)

(***************************************************************************)
(* Results. A result is a tuple whose first element is its kind:           *)
(*   <<"Ok", v>>, <<"NodeNotFound", id>>, <<"PortNotFound", id, port>>,    *)
(*   <<"TypeMismatch", from_type, to_type>>,                               *)
(*   <<"PortAlreadyConnected", id, port>>, <<"CycleDetected", nodes>>,     *)
(*   <<"ConnectionNotFound", id>>                                          *)
(***************************************************************************)
Ok(v) == <<"Ok", v>>

IsOk(r) == r[1] = "Ok"

\* The last call: its name, its arguments where the result does not carry them
\* (connect, remove_node), and what it returned.
Call(op, args, result) == [op |-> op, args |-> args, result |-> result]

\* A plausible slip: the already-connected check placed before the type check.
connect_result_connected_first(from_node, from_port, to_node, to_port, id) ==
    IF get_node(from_node) = <<>> THEN <<"NodeNotFound", from_node>>
    ELSE IF get_node(to_node) = <<>> THEN <<"NodeNotFound", to_node>>
    ELSE LET from_port_def == get_output(get_node(from_node)[1].filter, from_port)
             to_port_def == get_input(get_node(to_node)[1].filter, to_port)
         IN  IF from_port_def = <<>> THEN <<"PortNotFound", from_node, from_port>>
             ELSE IF to_port_def = <<>> THEN <<"PortNotFound", to_node, to_port>>
             ELSE IF is_input_connected(to_node, to_port)
                 THEN <<"PortAlreadyConnected", to_node, to_port>>
             ELSE IF ~compatible_with(from_port_def[1].port_type, to_port_def[1].port_type)
                 THEN <<"TypeMismatch", from_port_def[1].port_type, to_port_def[1].port_type>>
             ELSE IF would_create_cycle(from_node, to_node)
                 THEN <<"CycleDetected", <<from_node, to_node>>>>
             ELSE Ok(id)

\* The checks of connect, in the order of the code; Ok(id) when all pass.
connect_result(from_node, from_port, to_node, to_port, id) ==
    IF get_node(from_node) = <<>> THEN <<"NodeNotFound", from_node>>
    ELSE IF get_node(to_node) = <<>> THEN <<"NodeNotFound", to_node>>
    ELSE LET from_port_def == get_output(get_node(from_node)[1].filter, from_port)
             to_port_def == get_input(get_node(to_node)[1].filter, to_port)
         IN  IF from_port_def = <<>> THEN <<"PortNotFound", from_node, from_port>>
             ELSE IF to_port_def = <<>> THEN <<"PortNotFound", to_node, to_port>>
             ELSE IF ~compatible_with(from_port_def[1].port_type, to_port_def[1].port_type)
                 THEN <<"TypeMismatch", from_port_def[1].port_type, to_port_def[1].port_type>>
             ELSE IF is_input_connected(to_node, to_port)
                 THEN <<"PortAlreadyConnected", to_node, to_port>>
             ELSE IF would_create_cycle(from_node, to_node)
                 THEN <<"CycleDetected", <<from_node, to_node>>>>
             ELSE Ok(id)

\* A plausible slip: the connection is pushed before the cycle check returns.
connect_connections_early_push(from_node, from_port, to_node, to_port, result) ==
    IF IsOk(result)
    THEN Append(connections,
                Connection(result[2], Endpoint(from_node, from_port), Endpoint(to_node, to_port)))
    ELSE IF result[1] = "CycleDetected"
    THEN Append(connections,
                Connection(nextConnId, Endpoint(from_node, from_port), Endpoint(to_node, to_port)))
    ELSE connections

\* The connection list connect leaves behind: the error returns come before the push.
connect_connections(from_node, from_port, to_node, to_port, result) ==
    IF IsOk(result)
    THEN Append(connections,
                Connection(result[2], Endpoint(from_node, from_port), Endpoint(to_node, to_port)))
    ELSE connections

(***************************************************************************)
(* TopologyAnalyzer (graph/topology.rs).                                   *)
(* The iteration order of a std HashMap is unspecified: an operator that   *)
(* iterates a HashMap takes that order as the parameter `iter`.            *)
(***************************************************************************)
\* adjacency: for each node the targets of its outgoing connections, in list order.
adjacency ==
    [n \in Range(node_ids) |->
        [i \in 1..Len(connections_from(n)) |-> connections_from(n)[i].to.node_id]]

in_degree == [n \in Range(node_ids) |-> Len(connections_to(n))]

\* A plausible slip: a neighbour is queued on every decrement, not only at zero.
RECURSIVE KahnVisitAlwaysPush(_, _, _)
KahnVisitAlwaysPush(neighbors, degrees, queue) ==
    IF neighbors = <<>> THEN <<degrees, queue>>
    ELSE LET neighbor == Head(neighbors)
             degree == degrees[neighbor] - 1
         IN  KahnVisitAlwaysPush(Tail(neighbors),
                                 [degrees EXCEPT ![neighbor] = degree],
                                 Append(queue, neighbor))

\* The inner loop of Kahn's algorithm over the neighbours of one node.
RECURSIVE KahnVisit(_, _, _)
KahnVisit(neighbors, degrees, queue) ==
    IF neighbors = <<>> THEN <<degrees, queue>>
    ELSE LET neighbor == Head(neighbors)
             degree == degrees[neighbor] - 1
         IN  KahnVisit(Tail(neighbors),
                       [degrees EXCEPT ![neighbor] = degree],
                       IF degree = 0 THEN Append(queue, neighbor) ELSE queue)

\* The outer loop: while let Some(node) = queue.pop_front().
RECURSIVE KahnLoop(_, _, _, _)
KahnLoop(adj, degrees, queue, result) ==
    IF queue = <<>> THEN <<result, degrees>>
    ELSE LET node == Head(queue)
             visited == KahnVisit(adj[node], degrees, Tail(queue))
         IN  KahnLoop(adj, visited[1], visited[2], Append(result, node))

topological_sort(iter) ==
    LET degrees == in_degree
        queue == SelectSeq(iter, LAMBDA n : degrees[n] = 0)
        done == KahnLoop(adjacency, degrees, queue, <<>>)
    IN  IF Len(done[1]) # Len(nodes)
        THEN <<"CycleDetected", SelectSeq(iter, LAMBDA n : done[2][n] > 0)>>
        ELSE Ok(done[1])

\* A plausible slip: a node gets the depth of its deepest parent, without the + 1.
NodeDepthNoIncrement(node_id, depth) ==
    LET parents == connections_to(node_id)
        known == {depth[parents[i].from.node_id] :
                    i \in {j \in 1..Len(parents) : parents[j].from.node_id \in DOMAIN depth}}
        max_parent_depth == MaxOf(known, 0)
    IN  IF parents = <<>> THEN 0 ELSE max_parent_depth

\* The body of the depth loop of parallel_batches for one node.
NodeDepth(node_id, depth) ==
    LET parents == connections_to(node_id)
        known == {depth[parents[i].from.node_id] :
                    i \in {j \in 1..Len(parents) : parents[j].from.node_id \in DOMAIN depth}}
        max_parent_depth == MaxOf(known, 0)
    IN  IF parents = <<>> THEN 0 ELSE max_parent_depth + 1

RECURSIVE DepthLoop(_, _)
DepthLoop(sorted, depth) ==
    IF sorted = <<>> THEN depth
    ELSE LET node_id == Head(sorted)
             node_depth == NodeDepth(node_id, depth)
         IN  DepthLoop(Tail(sorted),
                       [n \in DOMAIN depth \cup {node_id} |->
                            IF n = node_id THEN node_depth ELSE depth[n]])

\* The grouping loop of parallel_batches: `for (node_id, d) in depth` pushes each
\* node on batches[d] in the iteration order of the depth map, then the empty
\* batches are dropped.
group_by_depth(depth, iter_depth) ==
    LET max_depth == MaxOf({depth[n] : n \in DOMAIN depth}, 0)
        batches == [d \in 1..(max_depth + 1) |->
                        SelectSeq(iter_depth, LAMBDA n : depth[n] = d - 1)]
    IN  SelectSeq(batches, LAMBDA batch : batch # <<>>)

\* Every result parallel_batches can return for the current graph.
parallel_batches_results ==
    LET orders == Orderings(Range(node_ids))
        sorts == {topological_sort(iter) : iter \in orders}
    IN  UNION {IF ~IsOk(sorted) THEN {sorted}
               ELSE LET depth == DepthLoop(sorted[2], [n \in {} |-> 0])
                    IN  {Ok(group_by_depth(depth, iter_depth)) : iter_depth \in orders}
               : sorted \in sorts}

(***************************************************************************)
(* Operations of ProcessingGraph.                                          *)
(***************************************************************************)
Init ==
    /\ nodes = <<>>
    /\ connections = <<>>
    /\ nextNodeId = 1
    /\ nextConnId = 1
    /\ ret = Call("new", <<>>, Ok(0))
    /\ NoEngine

\* add_filter(filter) = add_node(GraphNode::new(filter)): the node gets a fresh id.
AddFilter(filter) ==
    /\ nextNodeId <= MaxNodes
    /\ nodes' = IndexMapInsert(nodes, GraphNode(nextNodeId, filter))
    /\ nextNodeId' = nextNodeId + 1
    /\ ret' = Call("add_node", <<>>, Ok(nextNodeId))
    /\ UNCHANGED <<connections, nextConnId>>
    /\ UNCHANGED <<engineVars, substrateVars>>

\* add_node(GraphNode::new(filter).with_id(id)) for an id the graph already holds.
AddNode(id, filter) ==
    /\ has_node(id)
    /\ nodes' = IndexMapInsert(nodes, GraphNode(id, filter))
    /\ ret' = Call("add_node", <<>>, Ok(id))
    /\ UNCHANGED <<connections, nextNodeId, nextConnId>>
    /\ UNCHANGED <<engineVars, substrateVars>>

RemoveNode(id) ==
    /\ connections' = SelectSeq(connections,
                                LAMBDA conn : conn.from.node_id # id /\ conn.to.node_id # id)
    /\ nodes' = IndexMapShiftRemove(nodes, id)
    /\ ret' = Call("remove_node", <<id>>,
                   IF get_node(id) = <<>> THEN <<"NodeNotFound", id>> ELSE Ok(get_node(id)[1]))
    /\ UNCHANGED <<nextNodeId, nextConnId>>
    /\ UNCHANGED <<engineVars, substrateVars>>

\* At most MaxConns connections are created in one run; a call that fails takes
\* no connection id and stays possible.
Connect(from_node, from_port, to_node, to_port) ==
    /\ LET result == connect_result(from_node, from_port, to_node, to_port, nextConnId)
       IN  /\ IsOk(result) => nextConnId <= MaxConns
           /\ ret' = Call("connect", <<from_node, from_port, to_node, to_port>>, result)
           /\ connections' = connect_connections(from_node, from_port, to_node, to_port, result)
           /\ nextConnId' = IF IsOk(result) THEN nextConnId + 1 ELSE nextConnId
    /\ UNCHANGED <<nodes, nextNodeId>>
    /\ UNCHANGED <<engineVars, substrateVars>>

Disconnect(id) ==
    /\ LET pos == PositionFrom([i \in 1..Len(connections) |-> connections[i].id], id, 1)
       IN  IF pos = 0
           THEN /\ ret' = Call("disconnect", <<>>, <<"ConnectionNotFound", id>>)
                /\ UNCHANGED connections
           ELSE /\ ret' = Call("disconnect", <<>>, Ok(connections[pos]))
                /\ connections' = RemoveAt(connections, pos)
    /\ UNCHANGED <<nodes, nextNodeId, nextConnId>>
    /\ UNCHANGED <<engineVars, substrateVars>>

DisconnectInput(node_id, port) ==
    /\ connections' = SelectSeq(connections,
                                LAMBDA conn : ~(conn.to.node_id = node_id /\ conn.to.port_name = port))
    /\ ret' = Call("disconnect_input", <<>>, Ok(0))
    /\ UNCHANGED <<nodes, nextNodeId, nextConnId>>
    /\ UNCHANGED <<engineVars, substrateVars>>

TopologicalSort ==
    /\ \E result \in {topological_sort(iter) : iter \in Orderings(Range(node_ids))} :
            ret' = Call("topological_sort", <<>>, result)
    /\ UNCHANGED <<substrateVars, nodes, connections, nextNodeId, nextConnId>>
    /\ UNCHANGED <<engineVars, substrateVars>>

ParallelBatches ==
    /\ \E result \in parallel_batches_results :
            ret' = Call("parallel_batches", <<>>, result)
    /\ UNCHANGED <<substrateVars, nodes, connections, nextNodeId, nextConnId>>
    /\ UNCHANGED <<engineVars, substrateVars>>

Next ==
    \/ \E filter \in Filters : AddFilter(filter)
    \/ \E id \in NodeIds, filter \in Filters : AddNode(id, filter)
    \/ \E id \in NodeIds : RemoveNode(id)
    \/ \E from_node \in NodeIds, from_port \in FromPortNames,
          to_node \in NodeIds, to_port \in ToPortNames :
            Connect(from_node, from_port, to_node, to_port)
    \/ \E id \in 1..MaxConns : Disconnect(id)
    \/ \E node_id \in NodeIds, port \in ToPortNames : DisconnectInput(node_id, port)
    \/ TopologicalSort
    \/ ParallelBatches

Spec == Init /\ [][Next]_vars

(***************************************************************************)
(* A second specification for the port-type claims: two nodes with         *)
(* user-defined filters whose port types range over PortTypes, and the     *)
(* connection operations on them.                                          *)
(***************************************************************************)
InitTypes ==
    /\ \E out_type \in PortTypes, in_type \in PortTypes :
            nodes = <<GraphNode(1, custom_filter(<<"Any">>, out_type)),
                      GraphNode(2, custom_filter(in_type, <<"Any">>))>>
    /\ connections = <<>>
    /\ nextNodeId = 3
    /\ nextConnId = 1
    /\ ret = Call("new", <<>>, Ok(0))
    /\ NoEngine

NextTypes ==
    \/ \E from_node \in {1, 2}, to_node \in {1, 2} :
            Connect(from_node, "result", to_node, "value")
    \/ \E id \in 1..MaxConns : Disconnect(id)

SpecTypes == InitTypes /\ [][NextTypes]_vars

(***************************************************************************)
(* Values and maps (core/types.rs).                                        *)
(* A Value is a tuple <<kind, payload>>: <<"Float", n>>, <<"Integer", n>>, *)
(* <<"String", n>> (a text of n bytes), <<"Array", values>>.               *)
(* A HashMap<String, Value> is a set of <<name, value>> pairs with         *)
(* distinct names.                                                         *)
(***************************************************************************)
MapGet(map, name) ==
    LET found == {p \in map : p[1] = name}
    IN  IF found = {} THEN <<>> ELSE <<(CHOOSE p \in found : TRUE)[2]>>

MapInsert(map, name, value) == {p \in map : p[1] # name} \cup {<<name, value>>}

MapKeys(map) == {p[1] : p \in map}

\* usize::saturating_sub
saturating_sub(a, b) == IF a >= b THEN a - b ELSE 0

(***************************************************************************)
(* ResultCache (execution/cache.rs).                                       *)
(*   cache.lru : the LruCache as a sequence of entries, most recently used *)
(*               first                                                     *)
(*   now       : the clock read by Instant::now(), in seconds              *)
(***************************************************************************)
\* capacity of the cache the engine creates for itself: ResultCache::new(100)
DefaultCapacity == 100
\* max_memory of ResultCache::new: 512 MB
DefaultMaxMemory == 536870912
\* ttl of ResultCache::new: one hour, in seconds
DefaultTtl == 3600

\* The digest hash_value feeds to the hasher: the tag of the value and its
\* payload, an array with its length and the digests of its elements.
RECURSIVE hash_value(_)
hash_value(value) ==
    IF value[1] = "Array"
    THEN <<"Array", Len(value[2]), [i \in 1..Len(value[2]) |-> hash_value(value[2][i])]>>
    ELSE value

\* CacheKey::new: the node id and the hash of the inputs, taken in sorted key
\* order; the 64-bit hash is kept as the digest sequence it is computed from.
CacheKey(node_id, inputs) ==
    [node_id |-> node_id,
     input_hash |-> {<<p[1], hash_value(p[2])>> : p \in inputs}]

RECURSIVE estimate_value_size(_)
RECURSIVE SumValueSizes(_)
SumValueSizes(values) ==
    IF values = <<>> THEN 0
    ELSE estimate_value_size(Head(values)) + SumValueSizes(Tail(values))

estimate_value_size(value) ==
    IF value[1] \in {"Integer", "Float"} THEN 8
    ELSE IF value[1] = "String" THEN 24 + value[2]
    ELSE IF value[1] = "Array" THEN 24 + SumValueSizes(value[2])
    ELSE 0

RECURSIVE SumEntrySizes(_)
SumEntrySizes(outputs) ==
    IF outputs = {} THEN 0
    ELSE LET p == CHOOSE q \in outputs : TRUE
         IN  Len(p[1]) + estimate_value_size(p[2]) + SumEntrySizes(outputs \ {p})

estimate_memory_size(outputs) == 48 + SumEntrySizes(outputs)

\* CacheEntry::new
CacheEntry(key, outputs, computation_time, created_at) ==
    [key |-> key,
     outputs |-> outputs,
     created_at |-> created_at,
     computation_time |-> computation_time,
     memory_size |-> estimate_memory_size(outputs)]

\* CacheEntry::is_expired at time t
\* A plausible slip: an entry expires as soon as its age reaches the ttl.
is_expired_at_ttl(entry, ttl, t) == t - entry.created_at >= ttl

is_expired(entry, ttl, t) == t - entry.created_at > ttl

CacheStats == [hits |-> 0, misses |-> 0, evictions |-> 0, time_saved |-> 0]

\* ResultCache::with_memory_limit(capacity, ..).with_ttl(ttl), max_memory in bytes
ResultCache(capacity, max_memory, ttl) ==
    [lru |-> <<>>,
     capacity |-> IF capacity = 0 THEN 100 ELSE capacity,
     max_memory |-> max_memory,
     current_memory |-> 0,
     ttl |-> ttl,
     stats |-> CacheStats]

\* Position of the key in the LruCache, 0 when absent.
LruPosition(lru, key) == PositionFrom([i \in 1..Len(lru) |-> lru[i].key], key, 1)

\* A plausible slip: a present key is promoted but keeps its old entry.
LruPutKeepPresent(lru, capacity, entry) ==
    LET pos == LruPosition(lru, entry.key)
    IN  IF pos # 0 THEN <<lru[pos]>> \o RemoveAt(lru, pos)
        ELSE IF Len(lru) >= capacity THEN <<entry>> \o SubSeq(lru, 1, Len(lru) - 1)
        ELSE <<entry>> \o lru

\* LruCache::put: a present key gets the new entry, a full cache drops its
\* least recently used entry; the entry becomes the most recently used.
LruPut(lru, capacity, entry) ==
    LET pos == LruPosition(lru, entry.key)
    IN  IF pos # 0 THEN <<entry>> \o RemoveAt(lru, pos)
        ELSE IF Len(lru) >= capacity THEN <<entry>> \o SubSeq(lru, 1, Len(lru) - 1)
        ELSE <<entry>> \o lru

\* A plausible slip: a hit does not make the entry the most recently used
\* (LruCache::peek in place of LruCache::get).
cache_get_peek(c, key, t) ==
    LET pos == LruPosition(c.lru, key)
    IN  IF pos = 0
        THEN [cache |-> [c EXCEPT !.stats.misses = @ + 1], result |-> <<>>]
        ELSE LET entry == c.lru[pos]
             IN  IF is_expired(entry, c.ttl, t)
                 THEN [cache |-> [c EXCEPT !.lru = RemoveAt(c.lru, pos),
                                           !.stats.misses = @ + 1],
                       result |-> <<>>]
                 ELSE [cache |-> [c EXCEPT !.stats.hits = @ + 1,
                                           !.stats.time_saved = @ + entry.computation_time],
                       result |-> <<entry.outputs>>]

\* A plausible slip: the expiry path returns without counting a miss.
cache_get_expiry_uncounted(c, key, t) ==
    LET pos == LruPosition(c.lru, key)
    IN  IF pos = 0
        THEN [cache |-> [c EXCEPT !.stats.misses = @ + 1], result |-> <<>>]
        ELSE LET entry == c.lru[pos]
             IN  IF is_expired(entry, c.ttl, t)
                 THEN [cache |-> [c EXCEPT !.lru = RemoveAt(c.lru, pos)], result |-> <<>>]
                 ELSE [cache |-> [c EXCEPT !.lru = <<entry>> \o RemoveAt(c.lru, pos),
                                           !.stats.hits = @ + 1,
                                           !.stats.time_saved = @ + entry.computation_time],
                       result |-> <<entry.outputs>>]

\* ResultCache::get at time t: the cache afterwards and the Option returned.
cache_get(c, key, t) ==
    LET pos == LruPosition(c.lru, key)
    IN  IF pos = 0
        THEN [cache |-> [c EXCEPT !.stats.misses = @ + 1], result |-> <<>>]
        ELSE LET entry == c.lru[pos]
             IN  IF is_expired(entry, c.ttl, t)
                 THEN [cache |-> [c EXCEPT !.lru = RemoveAt(c.lru, pos),
                                           !.stats.misses = @ + 1],
                       result |-> <<>>]
                 ELSE [cache |-> [c EXCEPT !.lru = <<entry>> \o RemoveAt(c.lru, pos),
                                           !.stats.hits = @ + 1,
                                           !.stats.time_saved = @ + entry.computation_time],
                       result |-> <<entry.outputs>>]

\* The eviction loop of put: pop_lru while the new entry does not fit.
RECURSIVE EvictLoop(_, _)
EvictLoop(c, entry_size) ==
    IF c.current_memory + entry_size > c.max_memory /\ c.lru # <<>>
    THEN EvictLoop([c EXCEPT !.lru = SubSeq(c.lru, 1, Len(c.lru) - 1),
                             !.current_memory =
                                 saturating_sub(@, c.lru[Len(c.lru)].memory_size),
                             !.stats.evictions = @ + 1],
                   entry_size)
    ELSE c

\* ResultCache::put at time t.
cache_put(c, key, outputs, computation_time, t) ==
    LET entry == CacheEntry(key, outputs, computation_time, t)
        evicted == EvictLoop(c, entry.memory_size)
    IN  [evicted EXCEPT !.current_memory = @ + entry.memory_size,
                        !.lru = LruPut(evicted.lru, c.capacity, entry)]

\* ResultCache::invalidate
cache_invalidate(c, key) ==
    LET pos == LruPosition(c.lru, key)
    IN  IF pos = 0 THEN c
        ELSE [c EXCEPT !.lru = RemoveAt(c.lru, pos),
                       !.current_memory = saturating_sub(@, c.lru[pos].memory_size)]

RECURSIVE SumMemorySizes(_)
SumMemorySizes(entries) ==
    IF entries = <<>> THEN 0
    ELSE Head(entries).memory_size + SumMemorySizes(Tail(entries))

\* A plausible slip: only the first entry of the node is removed.
cache_invalidate_node_first(c, node_id) ==
    LET removed == SelectSeq(c.lru, LAMBDA e : e.key.node_id = node_id)
    IN  IF removed = <<>> THEN c
        ELSE [c EXCEPT !.lru = SelectSeq(c.lru, LAMBDA e : e.key # Head(removed).key),
                       !.current_memory = saturating_sub(@, Head(removed).memory_size)]

\* ResultCache::invalidate_node
cache_invalidate_node(c, node_id) ==
    LET removed == SelectSeq(c.lru, LAMBDA e : e.key.node_id = node_id)
    IN  [c EXCEPT !.lru = SelectSeq(c.lru, LAMBDA e : e.key.node_id # node_id),
                  !.current_memory = saturating_sub(@, SumMemorySizes(removed))]

\* ResultCache::clear
cache_clear(c) == [c EXCEPT !.lru = <<>>, !.current_memory = 0]

(***************************************************************************)
(* A specification of the cache on its own: one ResultCache and the calls  *)
(* of its public interface, with the clock advancing between calls.        *)
(***************************************************************************)
\* Number of calls made on the cache in one behaviour.
MaxCalls == 4
\* Entry-count capacity given to the cache.
MaxCapacity == 2
\* The clock advances in steps of TickLength seconds, at most MaxTicks times.
TickLength == 3600
MaxTicks == 2

\* with_memory_limit takes the limit in megabytes.
MemoryLimitsMb == {0, 1}

CacheNodeIds == {1, 2}

CacheInputs == {{}, {<<"a", <<"Float", 0>>>>}}

CacheKeys == {CacheKey(n, inputs) : n \in CacheNodeIds, inputs \in CacheInputs}

\* Two small output maps, one of more than half a megabyte and one of more
\* than a megabyte.
CacheOutputs ==
    {{<<"result", <<"Float", 0>>>>},
     {<<"result", <<"Float", 1>>>>},
     {<<"result", <<"String", 600000>>>>},
     {<<"result", <<"String", 2000000>>>>}}

Durations == {0, 1}

InitCache ==
    /\ nodes = <<>>
    /\ connections = <<>>
    /\ nextNodeId = 1
    /\ nextConnId = 1
    /\ eng = <<>>
    /\ now = 0
    /\ calls = 0
    /\ ret = Call("new", <<>>, Ok(0))
    /\ \E mb \in MemoryLimitsMb :
            cache = ResultCache(MaxCapacity, mb * 1024 * 1024, DefaultTtl)
    /\ NoSubstrate

Put(key, outputs, computation_time) ==
    /\ calls < MaxCalls
    /\ calls' = calls + 1
    /\ cache' = cache_put(cache, key, outputs, computation_time, now)
    /\ ret' = Call("put", <<key, outputs>>, Ok(0))
    /\ UNCHANGED <<substrateVars, nodes, connections, nextNodeId, nextConnId, eng, now>>

Get(key) ==
    /\ calls < MaxCalls
    /\ calls' = calls + 1
    /\ cache' = cache_get(cache, key, now).cache
    /\ ret' = Call("get", <<key>>, cache_get(cache, key, now).result)
    /\ UNCHANGED <<substrateVars, nodes, connections, nextNodeId, nextConnId, eng, now>>

Invalidate(key) ==
    /\ calls < MaxCalls
    /\ calls' = calls + 1
    /\ cache' = cache_invalidate(cache, key)
    /\ ret' = Call("invalidate", <<key>>, Ok(0))
    /\ UNCHANGED <<substrateVars, nodes, connections, nextNodeId, nextConnId, eng, now>>

InvalidateNode(node_id) ==
    /\ calls < MaxCalls
    /\ calls' = calls + 1
    /\ cache' = cache_invalidate_node(cache, node_id)
    /\ ret' = Call("invalidate_node", <<node_id>>, Ok(0))
    /\ UNCHANGED <<substrateVars, nodes, connections, nextNodeId, nextConnId, eng, now>>

Clear ==
    /\ calls < MaxCalls
    /\ calls' = calls + 1
    /\ cache' = cache_clear(cache)
    /\ ret' = Call("clear", <<>>, Ok(0))
    /\ UNCHANGED <<substrateVars, nodes, connections, nextNodeId, nextConnId, eng, now>>

\* Time passes between two calls.
Tick ==
    /\ now < MaxTicks * TickLength
    /\ now' = now + TickLength
    /\ ret' = Call("tick", <<>>, Ok(0))
    /\ UNCHANGED <<substrateVars, nodes, connections, nextNodeId, nextConnId, eng, cache, calls>>

NextCache ==
    \/ \E key \in CacheKeys, outputs \in CacheOutputs, computation_time \in Durations :
            Put(key, outputs, computation_time)
    \/ \E key \in CacheKeys : Get(key)
    \/ \E key \in CacheKeys : Invalidate(key)
    \/ \E node_id \in CacheNodeIds : InvalidateNode(node_id)
    \/ Clear
    \/ Tick

SpecCache == InitCache /\ [][NextCache]_vars

(***************************************************************************)
(* Filters whose execute the engine invokes (filters/builtin).             *)
(***************************************************************************)
\* filters/builtin/constants.rs: FloatConstant
float_constant ==
    NodeMetadata("float_constant", <<>>, <<PortDefinition("value", <<"Float">>)>>)

\* filters/builtin/array.rs: ArrayConcat
array_concat ==
    NodeMetadata("array_concat",
                 <<PortDefinition("images1", <<"Any">>),
                   PortDefinition("images2", <<"Any">>),
                   PortDefinition("images3", <<"Any">>)>>,
                 <<PortDefinition("images", <<"Array", <<"Image">>>>),
                   PortDefinition("count", <<"Integer">>)>>)

\* Result<_, ExecutionError> of a filter's execute, and of execute_node.
Err(e) == <<"Err", e>>

MissingInput(node_id, port) == <<"MissingInput", node_id, port>>

NodeExecution(node_id) == <<"NodeExecution", node_id>>

Cancelled == <<"Cancelled">>

\* ExecutionContext::get_input
ctx_get_input(node_id, inputs, name) ==
    IF MapGet(inputs, name) = <<>> THEN Err(MissingInput(node_id, name))
    ELSE Ok(MapGet(inputs, name)[1])

\* math.rs: get_input_as_float
get_input_as_float(node_id, inputs, port) ==
    LET got == ctx_get_input(node_id, inputs, port)
    IN  IF ~IsOk(got) THEN got
        ELSE IF got[2][1] \in {"Float", "Integer"} THEN Ok(got[2][2])
        ELSE Err(NodeExecution(node_id))

\* core/batch.rs: extract_images_from_value; the arrays of the model hold no
\* element, a value that is not an array is not an image here.
extract_images_from_value(value) ==
    IF value[1] = "Array" /\ value[2] = <<>> THEN Ok(<<>>) ELSE <<"Err", "not images">>

\* ArrayConcat::execute: the inputs that are present are collected, an absent
\* input is passed over.
RECURSIVE array_concat_collect(_, _, _, _)
array_concat_collect(node_id, inputs, names, all_images) ==
    IF names = <<>>
    THEN Ok({<<"images", <<"Array", all_images>>>>, <<"count", <<"Integer", Len(all_images)>>>>})
    ELSE LET got == ctx_get_input(node_id, inputs, Head(names))
         IN  IF ~IsOk(got)
             THEN array_concat_collect(node_id, inputs, Tail(names), all_images)
             ELSE LET images == extract_images_from_value(got[2])
                  IN  IF ~IsOk(images) THEN Err(NodeExecution(node_id))
                      ELSE array_concat_collect(node_id, inputs, Tail(names),
                                                all_images \o images[2])

\* GraphNode::set_parameter
set_parameter(node, name, value) ==
    [node EXCEPT !.parameters = MapInsert(node.parameters, name, value)]

\* NodeMetadata::parameters of the filters above: the name of each declared
\* parameter with its default_value.
metadata_parameters(filter) ==
    IF filter.id = "float_constant" THEN {<<"value", <<"Float", 0>>>>} ELSE {}

\* execute_node, "Add parameters (with defaults)": the override of the node
\* or the default, for every declared parameter.
context_parameters(node) ==
    {<<p[1], IF MapGet(node.parameters, p[1]) # <<>>
             THEN MapGet(node.parameters, p[1])[1] ELSE p[2]>> :
        p \in metadata_parameters(node.filter)}

\* ExecutionContext::get_float(name).unwrap_or(0.0)
ctx_get_float_or_zero(parameters, name) ==
    LET got == MapGet(parameters, name)
    IN  IF got # <<>> /\ got[1][1] \in {"Float", "Integer"} THEN got[1][2] ELSE 0

\* FilterNode::execute of the filter of a node on the inputs and parameters of
\* its context: Ok(outputs) or Err(error).
filter_execute(filter, node_id, inputs, parameters) ==
    IF filter.id = "float_constant"
        THEN Ok({<<"value", <<"Float", ctx_get_float_or_zero(parameters, "value")>>>>})
    ELSE IF filter.id = "to_string"
        THEN LET got == ctx_get_input(node_id, inputs, "value")
             IN  IF ~IsOk(got) THEN got
                 ELSE IF got[2][1] \in {"Integer", "Float"}
                     THEN Ok({<<"result", <<"String", 1>>>>})
                 ELSE IF got[2][1] = "String" THEN Ok({<<"result", got[2]>>})
                 ELSE Err(NodeExecution(node_id))
    ELSE IF filter.id = "add"
        THEN LET a == get_input_as_float(node_id, inputs, "a")
                 b == get_input_as_float(node_id, inputs, "b")
             IN  IF ~IsOk(a) THEN a
                 ELSE IF ~IsOk(b) THEN b
                 ELSE Ok({<<"result", <<"Float", a[2] + b[2]>>>>})
    ELSE IF filter.id = "array_concat"
        THEN array_concat_collect(node_id, inputs, <<"images1", "images2", "images3">>, <<>>)
    ELSE Err(NodeExecution(node_id))

(***************************************************************************)
(* ProgressTracker (execution/progress.rs): the events handed to the       *)
(* callback, in the order of the calls, and the cancel flag.               *)
(***************************************************************************)
\* A plausible slip: the start of a node is not reported.
node_started_silent(events, node_id) == events

node_started(events, node_id) == Append(events, <<"NodeStarted", node_id>>)

node_completed(events, node_id) == Append(events, <<"NodeCompleted", node_id>>)

node_skipped(events, node_id, reason) == Append(events, <<"NodeSkipped", node_id, reason>>)

report_error(events, node_id) == Append(events, <<"Error", node_id>>)

(***************************************************************************)
(* ExecutionEngine (execution/engine.rs).                                  *)
(*   eng.options     : ExecutionOptions of the run                         *)
(*   eng.disabled    : the nodes whose GraphNode::disabled is set          *)
(*   eng.phase       : "idle", "loop" (at the head of the batch or node    *)
(*                     loop of execute) or "batch" (execute_node running   *)
(*                     for the nodes of eng.batch)                         *)
(*   eng.plan        : the batches of the run; a sequential run has one    *)
(*                     node per batch                                      *)
(*   eng.batches     : the batches not yet begun                           *)
(*   eng.local       : per node of the batch, where execute_node stands    *)
(*                     and what it holds                                   *)
(*   eng.all_outputs, eng.errors, eng.stats : the locals of execute        *)
(*   eng.cancelled, eng.events : the tracker of the run                    *)
(*   eng.invoked     : the nodes whose filter execute was called           *)
(*   eng.results     : what the earlier runs returned                      *)
(*   eng.starts      : the clock at the start of each run                  *)
(***************************************************************************)
\* Number of execute calls on one engine.
MaxRuns == 2

ExecutionOptions(parallel, use_cache, stop_on_error, skip_disabled) ==
    [parallel |-> parallel, use_cache |-> use_cache,
     stop_on_error |-> stop_on_error, skip_disabled |-> skip_disabled]

ExecutionStats == [nodes_executed |-> 0, nodes_skipped |-> 0, cache_hits |-> 0, time_saved |-> 0]

\* PortDefinition::default_value: None unless with_default was used.
default_value(input) ==
    IF "default_value" \in DOMAIN input THEN input.default_value ELSE <<>>

\* The first loop of gather_inputs, over the connections into the node.
RECURSIVE gather_connected(_, _, _)
gather_connected(conns, upstream_outputs, inputs) ==
    IF conns = <<>> THEN inputs
    ELSE LET conn == Head(conns)
             upstream_output == MapGet(upstream_outputs, conn.from.node_id)
             value == IF upstream_output = <<>> THEN <<>>
                      ELSE MapGet(upstream_output[1], conn.from.port_name)
         IN  gather_connected(Tail(conns), upstream_outputs,
                              IF value = <<>> THEN inputs
                              ELSE MapInsert(inputs, conn.to.port_name, value[1]))

\* The second loop of gather_inputs, over the declared inputs.
RECURSIVE gather_defaults(_, _)
gather_defaults(declared, inputs) ==
    IF declared = <<>> THEN inputs
    ELSE LET input == Head(declared)
         IN  gather_defaults(Tail(declared),
                             IF input.name \notin MapKeys(inputs) /\ default_value(input) # <<>>
                             THEN MapInsert(inputs, input.name, default_value(input)[1])
                             ELSE inputs)

gather_inputs(node_id, upstream_outputs) ==
    gather_defaults(get_node(node_id)[1].filter.inputs,
                    gather_connected(connections_to(node_id), upstream_outputs, {}))

\* A plausible slip: no barrier, every node of the run in one batch.
execution_plan_one_batch(parallel, execution_order, batches) ==
    IF parallel /\ execution_order # <<>> THEN <<execution_order>>
    ELSE [i \in 1..Len(execution_order) |-> <<execution_order[i]>>]

\* A plausible slip: the parallel batches are taken deepest first.
execution_plan_deepest_first(parallel, execution_order, batches) ==
    IF parallel THEN [i \in 1..Len(batches) |-> batches[Len(batches) + 1 - i]]
    ELSE [i \in 1..Len(execution_order) |-> <<execution_order[i]>>]

\* The units execute loops over: the parallel batches, or the nodes of the
\* execution order one by one.
execution_plan(parallel, execution_order, batches) ==
    IF parallel THEN batches
    ELSE [i \in 1..Len(execution_order) |-> <<execution_order[i]>>]

\* A plausible slip: the terminal nodes taken as those without incoming connection.
terminal_nodes_no_incoming ==
    SelectSeq(node_ids, LAMBDA n : connections_to(n) = <<>>)

\* The nodes without outgoing connection, in node order.
terminal_nodes ==
    SelectSeq(node_ids, LAMBDA n : connections_from(n) = <<>>)

\* A plausible slip: stop_on_error is not consulted, every error is collected.
RECURSIVE process_results_never_stop(_, _, _, _, _)
process_results_never_stop(results, options, all_outputs, errors, stats) ==
    IF results = <<>>
    THEN [returned |-> <<>>, all_outputs |-> all_outputs, errors |-> errors, stats |-> stats]
    ELSE LET result == Head(results)
         IN  IF IsOk(result)
             THEN process_results_never_stop(
                    Tail(results), options,
                    MapInsert(all_outputs, result[2][1], result[2][2]),
                    errors,
                    IF result[2][3] THEN [stats EXCEPT !.cache_hits = @ + 1]
                    ELSE [stats EXCEPT !.nodes_executed = @ + 1])
             ELSE process_results_never_stop(Tail(results), options, all_outputs,
                                             Append(errors, result[2]), stats)

\* The loop of execute over the results of a batch (of one node in a
\* sequential run): `returned` holds the error execute returns at once, if any.
RECURSIVE process_results(_, _, _, _, _)
process_results(results, options, all_outputs, errors, stats) ==
    IF results = <<>>
    THEN [returned |-> <<>>, all_outputs |-> all_outputs, errors |-> errors, stats |-> stats]
    ELSE LET result == Head(results)
         IN  IF IsOk(result)
             THEN process_results(
                    Tail(results), options,
                    MapInsert(all_outputs, result[2][1], result[2][2]),
                    errors,
                    IF result[2][3] THEN [stats EXCEPT !.cache_hits = @ + 1]
                    ELSE [stats EXCEPT !.nodes_executed = @ + 1])
             ELSE IF options.stop_on_error
                 THEN [returned |-> <<result[2]>>, all_outputs |-> all_outputs,
                       errors |-> errors, stats |-> stats]
             ELSE process_results(Tail(results), options, all_outputs,
                                  Append(errors, result[2]), stats)

\* ExecutionResult of a run that reaches the end of execute.
ExecutionResult(all_outputs, errors, stats) ==
    [outputs |-> {p \in all_outputs : p[1] \in Range(terminal_nodes)},
     all_outputs |-> all_outputs,
     stats |-> [stats EXCEPT
                  !.nodes_skipped = Len(nodes) - stats.nodes_executed - stats.cache_hits,
                  !.time_saved = cache.stats.time_saved],
     errors |-> errors]

\* Where execute_node stands for one node of the running batch.
NodeLocal(pc, outputs, error, was_cached) ==
    [pc |-> pc, outputs |-> outputs, error |-> error, was_cached |-> was_cached]

\* What execute_node returned for a node that is done.
node_result(node_id, local) ==
    IF local.error = <<>> THEN Ok(<<node_id, local.outputs, local.was_cached>>)
    ELSE Err(<<node_id, local.error[1]>>)

\* The graphs handed to execute: each is what add_filter and connect build.
\*   chain: float_constant -> to_string -> to_string
\*   join : float_constant, float_constant -> add
\*   fork : add without inputs -> array_concat.images1 and -> to_string
\*   stack: float_constant -> array_concat.images1, its count -> to_string
EngineGraphs ==
    {[nodes |-> <<GraphNode(1, float_constant), GraphNode(2, to_string), GraphNode(3, to_string)>>,
      connections |-> <<Connection(1, Endpoint(1, "value"), Endpoint(2, "value")),
                        Connection(2, Endpoint(2, "result"), Endpoint(3, "value"))>>],
     [nodes |-> <<GraphNode(1, float_constant), GraphNode(2, float_constant), GraphNode(3, add)>>,
      connections |-> <<Connection(1, Endpoint(1, "value"), Endpoint(3, "a")),
                        Connection(2, Endpoint(2, "value"), Endpoint(3, "b"))>>],
     [nodes |-> <<GraphNode(1, add), GraphNode(2, array_concat), GraphNode(3, to_string)>>,
      connections |-> <<Connection(1, Endpoint(1, "result"), Endpoint(2, "images1")),
                        Connection(2, Endpoint(1, "result"), Endpoint(3, "value"))>>],
     [nodes |-> <<GraphNode(1, float_constant), GraphNode(2, array_concat), GraphNode(3, to_string)>>,
      connections |-> <<Connection(1, Endpoint(1, "value"), Endpoint(2, "images1")),
                        Connection(2, Endpoint(2, "count"), Endpoint(3, "value"))>>]}

\* The caches an engine is built with: ExecutionEngine::new, and with_cache
\* of a cache with a small capacity or with no memory at all.
EngineCaches ==
    {ResultCache(DefaultCapacity, DefaultMaxMemory, DefaultTtl),
     ResultCache(MaxCapacity, DefaultMaxMemory, DefaultTtl),
     ResultCache(DefaultCapacity, 0, DefaultTtl)}

EngineOptions ==
    {ExecutionOptions(parallel, use_cache, stop_on_error, TRUE) :
        parallel \in BOOLEAN, use_cache \in BOOLEAN, stop_on_error \in BOOLEAN}

\* The sets of disabled nodes.
DisabledSets == {{}, {2}}

Engine(options, disabled) ==
    [options |-> options, disabled |-> disabled, phase |-> "idle",
     plan |-> <<>>, batches |-> <<>>, batch |-> <<>>, local |-> <<>>,
     all_outputs |-> {}, errors |-> <<>>, stats |-> ExecutionStats,
     cancelled |-> FALSE, events |-> <<>>, invoked |-> <<>>, results |-> <<>>,
     starts |-> <<>>]

InitEngine ==
    /\ \E graph \in EngineGraphs :
            /\ nodes = graph.nodes
            /\ connections = graph.connections
    /\ nextNodeId = 4
    /\ nextConnId = 3
    /\ now = 0
    /\ calls = 0
    /\ ret = Call("new", <<>>, Ok(0))
    /\ cache \in EngineCaches
    /\ \E options \in EngineOptions, disabled \in DisabledSets :
            eng = Engine(options, disabled)
    /\ NoSubstrate

\* execute up to the head of its loop: the order, the tracker, the locals.
Execute ==
    /\ eng.phase = "idle"
    /\ calls < MaxRuns
    /\ calls' = calls + 1
    /\ \E sorted \in {topological_sort(iter) : iter \in Orderings(Range(node_ids))},
          batches \in parallel_batches_results :
            /\ IsOk(sorted)
            /\ IsOk(batches)
            /\ eng' = [eng EXCEPT
                         !.phase = "loop",
                         !.plan = execution_plan(eng.options.parallel, sorted[2], batches[2]),
                         !.batches = execution_plan(eng.options.parallel, sorted[2], batches[2]),
                         !.batch = <<>>, !.local = <<>>,
                         !.all_outputs = {}, !.errors = <<>>, !.stats = ExecutionStats,
                         !.cancelled = FALSE, !.events = <<<<"Started">>>>,
                         !.invoked = <<>>,
                         !.starts = Append(eng.starts, now)]
    /\ UNCHANGED <<substrateVars, nodes, connections, nextNodeId, nextConnId, ret, cache, now>>

\* The head of the loop with the flag clear: the next batch (or node) begins.
BeginBatch ==
    /\ eng.phase = "loop"
    /\ eng.batches # <<>>
    /\ ~eng.cancelled
    /\ eng' = [eng EXCEPT
                 !.phase = "batch",
                 !.batch = Head(eng.batches),
                 !.batches = Tail(eng.batches),
                 !.local = [n \in Range(Head(eng.batches)) |-> NodeLocal("begin", {}, <<>>, FALSE)]]
    /\ UNCHANGED <<substrateVars, nodes, connections, nextNodeId, nextConnId, ret, cache, now, calls>>

\* The head of the loop with the flag set.
ReturnCancelled ==
    /\ eng.phase = "loop"
    /\ eng.batches # <<>>
    /\ eng.cancelled
    /\ eng' = [eng EXCEPT
                 !.phase = "idle",
                 !.events = Append(eng.events, <<"Completed">>),
                 !.results = Append(eng.results, Err(Cancelled))]
    /\ ret' = Call("execute", <<>>, Err(Cancelled))
    /\ UNCHANGED <<substrateVars, nodes, connections, nextNodeId, nextConnId, cache, now, calls>>

\* execute_node up to node_started, or to its return for a disabled node.
BeginNode(n) ==
    /\ eng.phase = "batch"
    /\ n \in DOMAIN eng.local
    /\ eng.local[n].pc = "begin"
    /\ eng' = IF n \in eng.disabled /\ eng.options.skip_disabled
              THEN [eng EXCEPT
                      !.events = node_skipped(eng.events, n, "Disabled"),
                      !.local[n] = NodeLocal("done", {}, <<>>, FALSE)]
              ELSE [eng EXCEPT
                      !.events = node_started(eng.events, n),
                      !.local[n] = NodeLocal("gather", {}, <<>>, FALSE)]
    /\ UNCHANGED <<substrateVars, nodes, connections, nextNodeId, nextConnId, ret, cache, now, calls>>

\* gather_inputs and the cache lookup.
Gather(n) ==
    /\ eng.phase = "batch"
    /\ n \in DOMAIN eng.local
    /\ eng.local[n].pc = "gather"
    /\ LET inputs == gather_inputs(n, eng.all_outputs)
           got == cache_get(cache, CacheKey(n, inputs), now)
       IN  IF eng.options.use_cache
           THEN /\ cache' = got.cache
                /\ eng' = IF got.result # <<>>
                          THEN [eng EXCEPT !.local[n] = NodeLocal("cached", got.result[1], <<>>, TRUE)]
                          ELSE [eng EXCEPT !.local[n] = NodeLocal("invoke", {}, <<>>, FALSE)]
           ELSE /\ cache' = cache
                /\ eng' = [eng EXCEPT !.local[n] = NodeLocal("invoke", {}, <<>>, FALSE)]
    /\ UNCHANGED <<substrateVars, nodes, connections, nextNodeId, nextConnId, ret, now, calls>>

\* The return of execute_node on a cache hit.
SkipCached(n) ==
    /\ eng.phase = "batch"
    /\ n \in DOMAIN eng.local
    /\ eng.local[n].pc = "cached"
    /\ eng' = [eng EXCEPT
                 !.events = node_skipped(eng.events, n, "Cached"),
                 !.local[n].pc = "done"]
    /\ UNCHANGED <<substrateVars, nodes, connections, nextNodeId, nextConnId, ret, cache, now, calls>>

\* The context is built and the filter's execute is called.
Invoke(n) ==
    /\ eng.phase = "batch"
    /\ n \in DOMAIN eng.local
    /\ eng.local[n].pc = "invoke"
    /\ LET result == filter_execute(get_node(n)[1].filter, n, gather_inputs(n, eng.all_outputs),
                                    context_parameters(get_node(n)[1]))
       IN  eng' = [eng EXCEPT
                     !.invoked = Append(eng.invoked, n),
                     !.local[n] = IF IsOk(result)
                                  THEN NodeLocal("store", result[2], <<>>, FALSE)
                                  ELSE NodeLocal("failed", {}, <<result[2]>>, FALSE)]
    /\ UNCHANGED <<substrateVars, nodes, connections, nextNodeId, nextConnId, ret, cache, now, calls>>

\* The outputs are taken from the context and put into the cache.
Store(n) ==
    /\ eng.phase = "batch"
    /\ n \in DOMAIN eng.local
    /\ eng.local[n].pc = "store"
    /\ cache' = IF eng.options.use_cache
                THEN cache_put(cache, CacheKey(n, gather_inputs(n, eng.all_outputs)),
                               eng.local[n].outputs, 0, now)
                ELSE cache
    /\ eng' = [eng EXCEPT !.local[n].pc = "complete"]
    /\ UNCHANGED <<substrateVars, nodes, connections, nextNodeId, nextConnId, ret, now, calls>>

\* node_completed and the return of execute_node.
Complete(n) ==
    /\ eng.phase = "batch"
    /\ n \in DOMAIN eng.local
    /\ eng.local[n].pc = "complete"
    /\ eng' = [eng EXCEPT
                 !.events = node_completed(eng.events, n),
                 !.local[n].pc = "done"]
    /\ UNCHANGED <<substrateVars, nodes, connections, nextNodeId, nextConnId, ret, cache, now, calls>>

\* report_error and the return of execute_node after a failed execute.
Fail(n) ==
    /\ eng.phase = "batch"
    /\ n \in DOMAIN eng.local
    /\ eng.local[n].pc = "failed"
    /\ eng' = [eng EXCEPT
                 !.events = report_error(eng.events, n),
                 !.local[n].pc = "done"]
    /\ UNCHANGED <<substrateVars, nodes, connections, nextNodeId, nextConnId, ret, cache, now, calls>>

\* Every node of the batch has returned: execute goes over the results in the
\* order of the batch, and returns the first error when stop_on_error is set.
Collect ==
    /\ eng.phase = "batch"
    /\ \A n \in DOMAIN eng.local : eng.local[n].pc = "done"
    /\ LET results == [i \in 1..Len(eng.batch) |->
                          node_result(eng.batch[i], eng.local[eng.batch[i]])]
           after == process_results(results, eng.options, eng.all_outputs, eng.errors, eng.stats)
       IN  IF after.returned # <<>>
           THEN /\ eng' = [eng EXCEPT
                             !.phase = "idle", !.local = <<>>,
                             !.all_outputs = after.all_outputs,
                             !.stats = after.stats,
                             !.events = Append(report_error(eng.events, after.returned[1][1]),
                                               <<"Completed">>),
                             !.results = Append(eng.results, Err(after.returned[1][2]))]
                /\ ret' = Call("execute", <<>>, Err(after.returned[1][2]))
           ELSE /\ eng' = [eng EXCEPT
                             !.phase = "loop", !.local = <<>>,
                             !.all_outputs = after.all_outputs,
                             !.errors = after.errors,
                             !.stats = after.stats]
                /\ ret' = ret
    /\ UNCHANGED <<substrateVars, nodes, connections, nextNodeId, nextConnId, cache, now, calls>>

\* The loop is over: the terminal outputs, the statistics, Ok.
Finish ==
    /\ eng.phase = "loop"
    /\ eng.batches = <<>>
    /\ LET result == Ok(ExecutionResult(eng.all_outputs, eng.errors, eng.stats))
       IN  /\ eng' = [eng EXCEPT
                        !.phase = "idle",
                        !.events = Append(eng.events, <<"Completed">>),
                        !.results = Append(eng.results, result)]
           /\ ret' = Call("execute", <<>>, result)
    /\ UNCHANGED <<substrateVars, nodes, connections, nextNodeId, nextConnId, cache, now, calls>>

\* ProgressTracker::cancel on the tracker of the run, at any moment of the run.
Cancel ==
    /\ eng.phase \in {"loop", "batch"}
    /\ ~eng.cancelled
    /\ eng' = [eng EXCEPT
                 !.cancelled = TRUE,
                 !.events = Append(eng.events, <<"Cancelled">>)]
    /\ UNCHANGED <<substrateVars, nodes, connections, nextNodeId, nextConnId, ret, cache, now, calls>>

\* Time passes between two runs.
Elapse ==
    /\ eng.phase = "idle"
    /\ Tick

NextEngine ==
    \/ Execute
    \/ BeginBatch
    \/ ReturnCancelled
    \/ \E n \in NodeIds : BeginNode(n)
    \/ \E n \in NodeIds : Gather(n)
    \/ \E n \in NodeIds : SkipCached(n)
    \/ \E n \in NodeIds : Invoke(n)
    \/ \E n \in NodeIds : Store(n)
    \/ \E n \in NodeIds : Complete(n)
    \/ \E n \in NodeIds : Fail(n)
    \/ Collect
    \/ Finish
    \/ Cancel
    \/ Elapse

SpecEngine == InitEngine /\ [][NextEngine]_vars

(***************************************************************************)
(* MemoryTracker (core/chunked.rs) used by several threads.                *)
(*   tracker.current, tracker.peak : the two AtomicUsize                   *)
(*   tracker.limit                 : the limit                             *)
(*   tracker.threads[t]            : where thread t stands in try_allocate *)
(*                                   (pc), its argument (bytes) and its    *)
(*                                   locals current and peak               *)
(*   tracker.granted[t]            : the amounts granted to t and not yet  *)
(*                                   released, as counts per amount        *)
(* The arithmetic is on unbounded integers: the amounts of the model stay  *)
(* far below usize::MAX.                                                   *)
(***************************************************************************)
\* Number of threads sharing one tracker.
MaxThreads == 2
\* Number of try_allocate calls in one behaviour.
MaxAllocs == 4
\* The largest amount asked for, and the largest limit.
MaxBytes == 3

Threads == 1..MaxThreads

Amounts == 1..MaxBytes

TrackerLimits == (MaxBytes - 1)..MaxBytes

\* MemoryTracker::new
MemoryTracker(limit) == [current |-> 0, peak |-> 0, limit |-> limit]

ThreadLocal(pc, bytes, current, peak) ==
    [pc |-> pc, bytes |-> bytes, current |-> current, peak |-> peak]

\* A plausible slip: the new value is stored without comparing.
compare_exchange_blind(actual, expected) == TRUE

\* AtomicUsize::compare_exchange_weak can succeed when the value is the
\* expected one (and may fail even then).
compare_exchange_weak(actual, expected) == actual = expected

\* A plausible slip: release clears the counter.
fetch_sub_clear(value, bytes) == 0

\* AtomicUsize::fetch_sub
fetch_sub(value, bytes) == value - bytes

\* The sum of the amounts granted and not yet released.
RECURSIVE SumGranted(_, _)
SumGranted(granted, pairs) ==
    IF pairs = {} THEN 0
    ELSE LET p == CHOOSE q \in pairs : TRUE
         IN  p[2] * granted[p[1]][p[2]] + SumGranted(granted, pairs \ {p})

Outstanding == SumGranted(tracker.granted, Threads \X Amounts)

InitTracker ==
    /\ nodes = <<>>
    /\ connections = <<>>
    /\ nextNodeId = 1
    /\ nextConnId = 1
    /\ cache = <<>>
    /\ now = 0
    /\ eng = <<>>
    /\ calls = 0
    /\ chunked = <<>>
    /\ validation = <<>>
    /\ locks = <<>>
    /\ ret = Call("new", <<>>, Ok(0))
    /\ \E limit \in TrackerLimits :
            tracker = [current |-> 0, peak |-> 0, limit |-> limit,
                       threads |-> [t \in Threads |-> ThreadLocal("idle", 0, 0, 0)],
                       granted |-> [t \in Threads |-> [a \in Amounts |-> 0]]]

\* try_allocate returns: false leaves the thread as it was, true records the grant.
AllocateReturns(t, bytes, granted) ==
    [tracker EXCEPT !.threads[t] = ThreadLocal("idle", 0, 0, 0),
                    !.granted[t][bytes] = IF granted THEN @ + 1 ELSE @]

\* The head of the loop of try_allocate with `current` just read: reject, or
\* go on to the compare-and-swap.
LoopHead(t, bytes, current) ==
    IF current + bytes > tracker.limit
    THEN /\ tracker' = AllocateReturns(t, bytes, FALSE)
         /\ ret' = Call("try_allocate", <<t, bytes>>, FALSE)
    ELSE /\ tracker' = [tracker EXCEPT !.threads[t] = ThreadLocal("cas", bytes, current, 0)]
         /\ ret' = ret

\* try_allocate(bytes) is called: current is loaded.
TryAllocate(t, bytes) ==
    /\ tracker.threads[t].pc = "idle"
    /\ calls < MaxAllocs
    /\ calls' = calls + 1
    /\ LoopHead(t, bytes, tracker.current)
    /\ UNCHANGED <<nodes, connections, nextNodeId, nextConnId, cache, now, eng,
                   chunked, validation, locks>>

\* The compare-and-swap on current succeeds: peak is loaded.
SwapCurrent(t) ==
    /\ tracker.threads[t].pc = "cas"
    /\ compare_exchange_weak(tracker.current, tracker.threads[t].current)
    /\ LET local == tracker.threads[t]
           new_current == local.current + local.bytes
       IN  IF new_current > tracker.peak
           THEN /\ tracker' = [tracker EXCEPT
                                 !.current = new_current,
                                 !.threads[t] = ThreadLocal("peak", local.bytes,
                                                            local.current, tracker.peak)]
                /\ ret' = ret
           ELSE /\ tracker' = [AllocateReturns(t, local.bytes, TRUE) EXCEPT !.current = new_current]
                /\ ret' = Call("try_allocate", <<t, local.bytes>>, TRUE)
    /\ UNCHANGED <<nodes, connections, nextNodeId, nextConnId, cache, now, eng, calls,
                   chunked, validation, locks>>

\* The compare-and-swap on current fails and hands back the value it found.
SwapCurrentFails(t) ==
    /\ tracker.threads[t].pc = "cas"
    /\ tracker.current # tracker.threads[t].current
    /\ LoopHead(t, tracker.threads[t].bytes, tracker.current)
    /\ UNCHANGED <<nodes, connections, nextNodeId, nextConnId, cache, now, eng, calls,
                   chunked, validation, locks>>

\* The compare-and-swap on peak succeeds: try_allocate returns true.
SwapPeak(t) ==
    /\ tracker.threads[t].pc = "peak"
    /\ compare_exchange_weak(tracker.peak, tracker.threads[t].peak)
    /\ LET local == tracker.threads[t]
       IN  /\ tracker' = [AllocateReturns(t, local.bytes, TRUE) EXCEPT
                            !.peak = local.current + local.bytes]
           /\ ret' = Call("try_allocate", <<t, local.bytes>>, TRUE)
    /\ UNCHANGED <<nodes, connections, nextNodeId, nextConnId, cache, now, eng, calls,
                   chunked, validation, locks>>

\* The compare-and-swap on peak fails: the loop goes on with the value found,
\* or ends when the peak has reached the new usage.
SwapPeakFails(t) ==
    /\ tracker.threads[t].pc = "peak"
    /\ tracker.peak # tracker.threads[t].peak
    /\ LET local == tracker.threads[t]
       IN  IF local.current + local.bytes > tracker.peak
           THEN /\ tracker' = [tracker EXCEPT !.threads[t].peak = tracker.peak]
                /\ ret' = ret
           ELSE /\ tracker' = AllocateReturns(t, local.bytes, TRUE)
                /\ ret' = Call("try_allocate", <<t, local.bytes>>, TRUE)
    /\ UNCHANGED <<nodes, connections, nextNodeId, nextConnId, cache, now, eng, calls,
                   chunked, validation, locks>>

\* release(bytes) of an amount granted to the thread before.
Release(t, bytes) ==
    /\ tracker.threads[t].pc = "idle"
    /\ tracker.granted[t][bytes] > 0
    /\ tracker' = [tracker EXCEPT !.current = fetch_sub(@, bytes),
                                  !.granted[t][bytes] = @ - 1]
    /\ ret' = Call("release", <<t, bytes>>, TRUE)
    /\ UNCHANGED <<nodes, connections, nextNodeId, nextConnId, cache, now, eng, calls,
                   chunked, validation, locks>>

NextTracker ==
    \/ \E t \in Threads, bytes \in Amounts : TryAllocate(t, bytes)
    \/ \E t \in Threads : SwapCurrent(t)
    \/ \E t \in Threads : SwapCurrentFails(t)
    \/ \E t \in Threads : SwapPeak(t)
    \/ \E t \in Threads : SwapPeakFails(t)
    \/ \E t \in Threads, bytes \in Amounts : Release(t, bytes)

SpecTracker == InitTracker /\ [][NextTracker]_vars

(***************************************************************************)
(* Tiles (src/core/chunked.rs).  A u32 is written as the signed reading of *)
(* its 32 bits: a value below 2^31 is itself and u32::MAX is -1.  Every    *)
(* sum formed below stays far inside that range, so that + on the signed   *)
(* reading is the wrapping sum of the words.                               *)
(***************************************************************************)
U32Max == 0 - 1

\* a < b on u32.
u32_lt(a, b) == IF (a < 0) = (b < 0) THEN a < b ELSE b < 0

\* a.min(b) on u32.
u32_min(a, b) == IF u32_lt(b, a) THEN b ELSE a

\* a.saturating_sub(b) on u32.
u32_saturating_sub(a, b) == IF u32_lt(a, b) THEN 0 ELSE a - b

\* a + b does not fit in a u32.
u32_add_overflows(a, b) ==
    IF a < 0 /\ b < 0 THEN TRUE ELSE IF a >= 0 /\ b >= 0 THEN FALSE ELSE a + b >= 0

TileRegion(x, y, width, height) == [x |-> x, y |-> y, width |-> width, height |-> height]

right(r) == r.x + r.width

bottom(r) == r.y + r.height

\* The pixels of a region.
PixelsOf(r) == (r.x .. (right(r) - 1)) \X (r.y .. (bottom(r) - 1))

None == <<"None">>

Some(v) == <<"Some", v>>

TileIterator(image_width, image_height, tile_width, tile_height) ==
    [image_width |-> image_width, image_height |-> image_height,
     tile_width |-> tile_width, tile_height |-> tile_height,
     current_x |-> 0, current_y |-> 0]

\* TileIterator::tile_count.
tile_count(it) ==
    LET tiles_x == (it.image_width + it.tile_width - 1) \div it.tile_width
        tiles_y == (it.image_height + it.tile_height - 1) \div it.tile_height
    IN  tiles_x * tiles_y

\* TileIterator::next: the item returned and the iterator afterwards.
tile_next(it) ==
    IF it.current_y >= it.image_height
    THEN [item |-> None, it |-> it]
    ELSE LET x == it.current_x
             y == it.current_y
             width == u32_min(it.tile_width, it.image_width - x)
             height == u32_min(it.tile_height, it.image_height - y)
             moved == x + it.tile_width
         IN  [item |-> Some(TileRegion(x, y, width, height)),
              it |-> IF moved >= it.image_width
                     THEN [it EXCEPT !.current_x = 0, !.current_y = y + it.tile_height]
                     ELSE [it EXCEPT !.current_x = moved]]

MaxImage == 4
MaxTile == 3

IteratorWidths == 0..MaxImage
IteratorHeights == 0..MaxImage
IteratorTiles == 1..MaxTile

InitTiles ==
    /\ nodes = <<>>
    /\ connections = <<>>
    /\ nextNodeId = 1
    /\ nextConnId = 1
    /\ cache = <<>>
    /\ now = 0
    /\ eng = <<>>
    /\ calls = 0
    /\ tracker = <<>>
    /\ validation = <<>>
    /\ locks = <<>>
    /\ ret = Call("new", <<>>, Ok(0))
    /\ \E w \in IteratorWidths, h \in IteratorHeights, tw \in IteratorTiles, th \in IteratorTiles :
            chunked = [it |-> TileIterator(w, h, tw, th), yielded |-> <<>>, done |-> FALSE]

\* next() returns a tile.
NextSome ==
    /\ ~chunked.done
    /\ tile_next(chunked.it).item # None
    /\ chunked' = [chunked EXCEPT !.it = tile_next(chunked.it).it,
                                  !.yielded = Append(@, tile_next(chunked.it).item[2])]
    /\ ret' = Call("next", <<>>, tile_next(chunked.it).item)
    /\ UNCHANGED <<nodes, connections, nextNodeId, nextConnId, cache, now, eng, calls,
                   tracker, validation, locks>>

\* next() returns None: the iteration is over.
NextNone ==
    /\ ~chunked.done
    /\ tile_next(chunked.it).item = None
    /\ chunked' = [chunked EXCEPT !.it = tile_next(chunked.it).it, !.done = TRUE]
    /\ ret' = Call("next", <<>>, None)
    /\ UNCHANGED <<nodes, connections, nextNodeId, nextConnId, cache, now, eng, calls,
                   tracker, validation, locks>>

NextTiles == NextSome \/ NextNone

SpecTiles == InitTiles /\ [][NextTiles]_vars

(***************************************************************************)
(* Chunked processing (src/core/chunked.rs): process_pointwise over an     *)
(* in-memory RGBA source, one step of process_chunked per action.  The     *)
(* build either checks integer overflow (a debug build: the addition       *)
(* panics) or does not (a release build: the addition wraps).              *)
(***************************************************************************)
MIN_TILE_SIZE == 64
MAX_TILE_SIZE == 4096
BYTES_PER_PIXEL == 4
working_memory_factor == 3

clamp(v, lo, hi) == IF v < lo THEN lo ELSE IF v > hi THEN hi ELSE v

\* (x as f64).sqrt() as u32 for a non-negative x, given the integer part of x.
sqrt_as_u32(n) == CHOOSE r \in 0..n : r * r <= n /\ (r + 1) * (r + 1) > n

Rgba(r, g, b, a) == <<r, g, b, a>>

\* ImageBuffer::new(width, height): every pixel is zero.
ImageBuffer(width, height) ==
    [width |-> width, height |-> height,
     px |-> [p \in (0 .. (width - 1)) \X (0 .. (height - 1)) |-> Rgba(0, 0, 0, 0)]]

\* The pixel of the source image at (x, y).
SourcePixel(x, y) == Rgba((x + 1) % 256, (3 * y + 2) % 256, (x + y) % 256, 255)

\* The pixel function handed to process_pointwise: invert the colour channels.
process_pixel(p) == Rgba(255 - p[1], 255 - p[2], 255 - p[3], p[4])

ProcessingConfig(memory_limit, tile_width, tile_height, overlap) ==
    [memory_limit |-> memory_limit,
     tile_width |-> clamp(tile_width, MIN_TILE_SIZE, MAX_TILE_SIZE),
     tile_height |-> clamp(tile_height, MIN_TILE_SIZE, MAX_TILE_SIZE),
     overlap |-> overlap]

calculate_optimal_tile_size(config, image_width, image_height) ==
    LET max_tile_pixels == config.memory_limit \div (BYTES_PER_PIXEL * working_memory_factor)
        total_pixels == image_width * image_height
        tile_height == clamp(sqrt_as_u32((max_tile_pixels * config.tile_height)
                                            \div config.tile_width),
                             MIN_TILE_SIZE, MAX_TILE_SIZE)
        tile_width == clamp((tile_height * config.tile_width) \div config.tile_height,
                            MIN_TILE_SIZE, MAX_TILE_SIZE)
    IN  IF total_pixels <= max_tile_pixels
        THEN <<image_width, image_height>>
        ELSE <<tile_width, tile_height>>

\* ProcessingConfig::needs_chunking
needs_chunking(config, image_width, image_height) ==
    image_width * image_height * BYTES_PER_PIXEL > config.memory_limit \div 2

\* TileRegion::expand_with_overlap, with the sums as a build without overflow
\* checks forms them.
expand_with_overlap(r, overlap, image_width, image_height) ==
    LET new_x == u32_saturating_sub(r.x, overlap)
        new_y == u32_saturating_sub(r.y, overlap)
        new_right == u32_min(right(r) + overlap, image_width)
        new_bottom == u32_min(bottom(r) + overlap, image_height)
    IN  TileRegion(new_x, new_y, new_right - new_x, new_bottom - new_y)

\* The additions of expand_with_overlap leave the u32 range.
expand_overflows(r, overlap) ==
    u32_add_overflows(right(r), overlap) \/ u32_add_overflows(bottom(r), overlap)

TileBuffer(data, region, overlap_region) ==
    [data |-> data, region |-> region, overlap_region |-> overlap_region]

memory_size(tile) == tile.data.width * tile.data.height * BYTES_PER_PIXEL

\* MemoryImageSource::read_tile: the region is clamped to the image and cropped.
read_tile(image_width, image_height, r) ==
    LET region == TileRegion(u32_min(r.x, image_width),
                             u32_min(r.y, image_height),
                             u32_min(r.width, u32_saturating_sub(image_width, r.x)),
                             u32_min(r.height, u32_saturating_sub(image_height, r.y)))
        rgba == [width |-> region.width, height |-> region.height,
                 px |-> [p \in (0 .. (region.width - 1)) \X (0 .. (region.height - 1)) |->
                            SourcePixel(region.x + p[1], region.y + p[2])]]
    IN  TileBuffer(rgba, region, region)

\* The closure of process_pointwise: the pixel function on every pixel of the tile.
process_tile(tile) ==
    [width |-> tile.data.width, height |-> tile.data.height,
     px |-> [p \in DOMAIN tile.data.px |-> process_pixel(tile.data.px[p])]]

extract_core(tile) ==
    LET offset_x == tile.region.x - tile.overlap_region.x
        offset_y == tile.region.y - tile.overlap_region.y
    IN  [width |-> tile.region.width, height |-> tile.region.height,
         px |-> [p \in (0 .. (tile.region.width - 1)) \X (0 .. (tile.region.height - 1)) |->
                    IF p[1] + offset_x < tile.data.width /\ p[2] + offset_y < tile.data.height
                    THEN tile.data.px[<<p[1] + offset_x, p[2] + offset_y>>]
                    ELSE Rgba(0, 0, 0, 0)]]

\* MemoryImageSink::write_tile: the core of the tile is copied to the output.
write_tile(output, tile) ==
    LET core == extract_core(tile)
    IN  [output EXCEPT !.px =
            [p \in DOMAIN output.px |->
                IF /\ tile.region.x <= p[1] /\ p[1] < right(tile.region)
                   /\ tile.region.y <= p[2] /\ p[2] < bottom(tile.region)
                THEN core.px[<<p[1] - tile.region.x, p[2] - tile.region.y>>]
                ELSE output.px[p]]]

\* The tiles an iterator yields up to None.
RECURSIVE collect(_)
collect(it) ==
    IF tile_next(it).item = None THEN <<>>
    ELSE <<tile_next(it).item[2]>> \o collect(tile_next(it).it)

\* MemoryTracker::try_allocate and release as process_chunked calls them, on
\* one thread.
try_allocate(tr, bytes) ==
    IF tr.current + bytes > tr.limit
    THEN [ok |-> FALSE, tracker |-> tr]
    ELSE [ok |-> TRUE,
          tracker |-> [tr EXCEPT !.current = @ + bytes,
                                 !.peak = IF tr.current + bytes > @ THEN tr.current + bytes ELSE @]]

release(tr, bytes) == [tr EXCEPT !.current = fetch_sub(@, bytes)]

OutOfMemory == <<"OutOfMemory">>

SmallLimit == 600
LargeLimit == 40000
WideImage == 65

ImageSizes == {<<0, 2>>, <<2, 2>>, <<WideImage, 1>>, <<2, WideImage>>, <<WideImage, WideImage>>}
MemoryLimits == {SmallLimit, LargeLimit}
TileSizes == {<<512, 512>>, <<128, 64>>}
Overlaps == {0, 1, U32Max}

InitChunked ==
    /\ nodes = <<>>
    /\ connections = <<>>
    /\ nextNodeId = 1
    /\ nextConnId = 1
    /\ cache = <<>>
    /\ now = 0
    /\ eng = <<>>
    /\ calls = 0
    /\ tracker = <<>>
    /\ validation = <<>>
    /\ locks = <<>>
    /\ ret = Call("new", <<>>, Ok(0))
    /\ \E size \in ImageSizes, limit \in MemoryLimits, ts \in TileSizes,
          overlap \in Overlaps, overflow_checks \in BOOLEAN :
            chunked = [image_width |-> size[1], image_height |-> size[2],
                       config |-> ProcessingConfig(limit, ts[1], ts[2], overlap),
                       overflow_checks |-> overflow_checks,
                       phase |-> "new", tiles |-> <<>>, tile |-> <<>>, tile_memory |-> 0,
                       processed |-> <<>>, tracker |-> <<>>, output |-> <<>>]

\* process_pointwise is called: the sink is initialized, the tile size chosen,
\* the tracker created and the tiles collected.
Begin ==
    /\ chunked.phase = "new"
    /\ LET size == calculate_optimal_tile_size(chunked.config, chunked.image_width,
                                                chunked.image_height)
       IN  chunked' = [chunked EXCEPT
                !.phase = "loop",
                !.output = ImageBuffer(chunked.image_width, chunked.image_height),
                !.tracker = MemoryTracker(chunked.config.memory_limit),
                !.tiles = collect(TileIterator(chunked.image_width, chunked.image_height,
                                               size[1], size[2]))]
    /\ UNCHANGED <<nodes, connections, nextNodeId, nextConnId, cache, now, eng, calls,
                   tracker, validation, ret, locks>>

\* The region of the next tile is expanded and the tile is read.
ReadTile ==
    /\ chunked.phase = "loop"
    /\ chunked.tiles # <<>>
    /\ ~(chunked.overflow_checks /\ expand_overflows(Head(chunked.tiles), chunked.config.overlap))
    /\ LET tile_region == Head(chunked.tiles)
           overlap_region == expand_with_overlap(tile_region, chunked.config.overlap,
                                                 chunked.image_width, chunked.image_height)
           tile == read_tile(chunked.image_width, chunked.image_height, overlap_region)
       IN  chunked' = [chunked EXCEPT
                !.phase = "allocate",
                !.tile = [tile EXCEPT !.region = tile_region,
                                      !.overlap_region = overlap_region],
                !.tile_memory = memory_size(tile) * 2]
    /\ UNCHANGED <<nodes, connections, nextNodeId, nextConnId, cache, now, eng, calls,
                   tracker, validation, ret, locks>>

\* In a build with overflow checks the addition of expand_with_overlap panics.
ExpandPanics ==
    /\ chunked.phase = "loop"
    /\ chunked.tiles # <<>>
    /\ chunked.overflow_checks
    /\ expand_overflows(Head(chunked.tiles), chunked.config.overlap)
    /\ chunked' = [chunked EXCEPT !.phase = "panicked"]
    /\ ret' = Call("process_pointwise", <<>>, <<"panic">>)
    /\ UNCHANGED <<nodes, connections, nextNodeId, nextConnId, cache, now, eng, calls,
                   tracker, validation, locks>>

\* The memory of the tile is reserved, and the tile is processed.
ProcessTile ==
    /\ chunked.phase = "allocate"
    /\ try_allocate(chunked.tracker, chunked.tile_memory).ok
    /\ chunked' = [chunked EXCEPT
            !.phase = "write",
            !.tracker = try_allocate(chunked.tracker, chunked.tile_memory).tracker,
            !.processed = process_tile(chunked.tile)]
    /\ UNCHANGED <<nodes, connections, nextNodeId, nextConnId, cache, now, eng, calls,
                   tracker, validation, ret, locks>>

\* The reservation is refused: process_chunked returns OutOfMemory.
AllocateFails ==
    /\ chunked.phase = "allocate"
    /\ ~try_allocate(chunked.tracker, chunked.tile_memory).ok
    /\ chunked' = [chunked EXCEPT !.phase = "returned"]
    /\ ret' = Call("process_pointwise", <<>>, Err(OutOfMemory))
    /\ UNCHANGED <<nodes, connections, nextNodeId, nextConnId, cache, now, eng, calls,
                   tracker, validation, locks>>

\* The processed tile is written to the sink and its memory is released.
WriteTile ==
    /\ chunked.phase = "write"
    /\ chunked' = [chunked EXCEPT
            !.phase = "loop",
            !.output = write_tile(chunked.output,
                                  TileBuffer(chunked.processed, chunked.tile.region,
                                             chunked.tile.overlap_region)),
            !.tracker = release(chunked.tracker, chunked.tile_memory),
            !.tiles = Tail(@),
            !.tile = <<>>,
            !.processed = <<>>]
    /\ UNCHANGED <<nodes, connections, nextNodeId, nextConnId, cache, now, eng, calls,
                   tracker, validation, ret, locks>>

\* Every tile is written: the sink is finalized and its image returned.
Finalize ==
    /\ chunked.phase = "loop"
    /\ chunked.tiles = <<>>
    /\ chunked' = [chunked EXCEPT !.phase = "returned"]
    /\ ret' = Call("process_pointwise", <<>>, Ok(chunked.output))
    /\ UNCHANGED <<nodes, connections, nextNodeId, nextConnId, cache, now, eng, calls,
                   tracker, validation, locks>>

NextChunked ==
    \/ Begin
    \/ ReadTile
    \/ ExpandPanics
    \/ ProcessTile
    \/ AllocateFails
    \/ WriteTile
    \/ Finalize

SpecChunked == InitChunked /\ [][NextChunked]_vars

(***************************************************************************)
(* process_chunked with a tile transform and a sink that may fail: both    *)
(* are arguments of the caller, and each `?` returns the error at once.    *)
(***************************************************************************)
\* process_tile(&tile)? returns the error of the transform.
ProcessTileFails ==
    /\ chunked.phase = "allocate"
    /\ try_allocate(chunked.tracker, chunked.tile_memory).ok
    /\ chunked' = [chunked EXCEPT
            !.phase = "returned",
            !.tracker = try_allocate(chunked.tracker, chunked.tile_memory).tracker]
    /\ ret' = Call("process_chunked", <<>>, Err(<<"NodeExecution", "process_tile">>))
    /\ UNCHANGED <<nodes, connections, nextNodeId, nextConnId, cache, now, eng, calls,
                   tracker, validation, locks>>

\* sink.write_tile(&processed_tile)? returns the error of the sink.
WriteTileFails ==
    /\ chunked.phase = "write"
    /\ chunked' = [chunked EXCEPT !.phase = "returned"]
    /\ ret' = Call("process_chunked", <<>>, Err(<<"NodeExecution", "write_tile">>))
    /\ UNCHANGED <<nodes, connections, nextNodeId, nextConnId, cache, now, eng, calls,
                   tracker, validation, locks>>

NextProcessChunked ==
    \/ NextChunked
    \/ ProcessTileFails
    \/ WriteTileFails

SpecProcessChunked == InitChunked /\ [][NextProcessChunked]_vars

(***************************************************************************)
(* Validation pipeline (src/validation/pipeline.rs, src/core/error.rs).    *)
(* A stage is a function of the graph: what each stage returns for the     *)
(* graph under validation is fixed when validate is called.                *)
(***************************************************************************)
ValidationError(kind, node) == [kind |-> kind, node |-> node]

ValidationWarning(message) == [message |-> message]

\* ValidationPipeline::default_pipeline.
default_pipeline == <<"StructuralValidation", "TypeValidation", "ConstraintValidation",
                      "CustomValidation", "ResourceValidation">>

is_fatal_never(error) == FALSE

is_fatal_always(error) == TRUE

is_fatal(error) == error.kind \in {"CycleDetected", "InsufficientMemory", "NoOutputNodes"}

\* ValidationReport::new.
ValidationReport == [success |-> TRUE, errors |-> <<>>, warnings |-> <<>>]

add_error(report, error) == [report EXCEPT !.success = FALSE, !.errors = Append(@, error)]

add_warning(report, warning) == [report EXCEPT !.warnings = Append(@, warning)]

\* The loop of validate over the warnings of a stage.
RECURSIVE add_warnings(_, _)
add_warnings(report, warnings) ==
    IF warnings = <<>> THEN report
    ELSE add_warnings(add_warning(report, Head(warnings)), Tail(warnings))

\* The loop of validate over the errors of a stage: it ends at a fatal error.
RECURSIVE add_errors(_, _)
add_errors(report, errors) ==
    IF errors = <<>> THEN [report |-> report, fatal |-> FALSE]
    ELSE IF is_fatal(Head(errors))
         THEN [report |-> add_error(report, Head(errors)), fatal |-> TRUE]
         ELSE add_errors(add_error(report, Head(errors)), Tail(errors))

\* What a stage can return for a graph: Ok with its warnings or Err with its
\* errors, in the order the stage pushes them.
StageResults(stage) ==
    CASE stage = "StructuralValidation" ->
            {Ok(<<>>),
             Ok(<<ValidationWarning("disconnected subgraphs")>>),
             Err(<<ValidationError("CycleDetected", 0)>>),
             Err(<<ValidationError("MissingRequiredInput", 1)>>),
             Err(<<ValidationError("CycleDetected", 0),
                   ValidationError("MissingRequiredInput", 1)>>)}
      [] stage = "TypeValidation" ->
            {Ok(<<>>),
             Err(<<ValidationError("TypeMismatch", 1)>>),
             Err(<<ValidationError("TypeMismatch", 1), ValidationError("TypeMismatch", 2)>>)}
      [] stage = "ConstraintValidation" ->
            {Ok(<<>>),
             Err(<<ValidationError("ConstraintViolation", 1)>>)}
      [] stage = "CustomValidation" ->
            {Ok(<<>>),
             Err(<<ValidationError("CustomValidation", 1)>>),
             Err(<<ValidationError("NoOutputNodes", 0)>>),
             Err(<<ValidationError("CustomValidation", 1),
                   ValidationError("InsufficientMemory", 2),
                   ValidationError("Other", 3)>>)}
      [] stage = "ResourceValidation" ->
            {Ok(<<>>),
             Ok(<<ValidationWarning("output directory does not exist")>>),
             Err(<<ValidationError("ResourceNotFound", 1)>>)}

InitValidation ==
    /\ nodes = <<>>
    /\ connections = <<>>
    /\ nextNodeId = 1
    /\ nextConnId = 1
    /\ cache = <<>>
    /\ now = 0
    /\ eng = <<>>
    /\ calls = 0
    /\ tracker = <<>>
    /\ chunked = <<>>
    /\ locks = <<>>
    /\ ret = Call("new", <<>>, Ok(0))
    /\ \E r1 \in StageResults(default_pipeline[1]), r2 \in StageResults(default_pipeline[2]),
          r3 \in StageResults(default_pipeline[3]), r4 \in StageResults(default_pipeline[4]),
          r5 \in StageResults(default_pipeline[5]) :
            validation = [stages |-> default_pipeline, results |-> <<r1, r2, r3, r4, r5>>,
                          next |-> 1, ran |-> <<>>, report |-> ValidationReport,
                          returned |-> FALSE]

\* The next stage validates the graph and returns Ok: its warnings are added.
StageOk ==
    /\ ~validation.returned
    /\ validation.next <= Len(validation.stages)
    /\ validation.results[validation.next][1] = "Ok"
    /\ validation' = [validation EXCEPT
            !.next = @ + 1,
            !.ran = Append(@, validation.stages[validation.next]),
            !.report = add_warnings(@, validation.results[validation.next][2])]
    /\ UNCHANGED <<nodes, connections, nextNodeId, nextConnId, cache, now, eng, calls,
                   tracker, chunked, ret, locks>>

\* The next stage returns Err without a fatal error: its errors are added.
StageErr ==
    /\ ~validation.returned
    /\ validation.next <= Len(validation.stages)
    /\ validation.results[validation.next][1] = "Err"
    /\ ~add_errors(validation.report, validation.results[validation.next][2]).fatal
    /\ validation' = [validation EXCEPT
            !.next = @ + 1,
            !.ran = Append(@, validation.stages[validation.next]),
            !.report = add_errors(@, validation.results[validation.next][2]).report]
    /\ UNCHANGED <<nodes, connections, nextNodeId, nextConnId, cache, now, eng, calls,
                   tracker, chunked, ret, locks>>

\* The next stage returns Err with a fatal error: the errors up to it are
\* added and validate returns the report.
StageFatal ==
    /\ ~validation.returned
    /\ validation.next <= Len(validation.stages)
    /\ validation.results[validation.next][1] = "Err"
    /\ add_errors(validation.report, validation.results[validation.next][2]).fatal
    /\ validation' = [validation EXCEPT
            !.next = @ + 1,
            !.ran = Append(@, validation.stages[validation.next]),
            !.report = add_errors(@, validation.results[validation.next][2]).report,
            !.returned = TRUE]
    /\ ret' = Call("validate", <<>>,
                   add_errors(validation.report, validation.results[validation.next][2]).report)
    /\ UNCHANGED <<nodes, connections, nextNodeId, nextConnId, cache, now, eng, calls,
                   tracker, chunked, locks>>

\* Every stage has run: validate returns the report.
ValidateReturns ==
    /\ ~validation.returned
    /\ validation.next > Len(validation.stages)
    /\ validation' = [validation EXCEPT !.returned = TRUE]
    /\ ret' = Call("validate", <<>>, validation.report)
    /\ UNCHANGED <<nodes, connections, nextNodeId, nextConnId, cache, now, eng, calls,
                   tracker, chunked, locks>>

NextValidation == StageOk \/ StageErr \/ StageFatal \/ ValidateReturns

SpecValidation == InitValidation /\ [][NextValidation]_vars

(***************************************************************************)
(* Parameter overrides between runs: the owner of the graph calls          *)
(* get_node_mut(id) and GraphNode::set_parameter while no execute runs.    *)
(***************************************************************************)
\* The values given to the "value" parameter of a float_constant node.
ParameterValues == {<<"Float", 1>>}

\* An engine with the cache of ExecutionEngine::new over a graph without
\* disabled node.
InitParameters ==
    /\ InitEngine
    /\ cache = ResultCache(DefaultCapacity, DefaultMaxMemory, DefaultTtl)
    /\ eng.disabled = {}

SetParameter(id, value) ==
    /\ eng.phase = "idle"
    /\ has_node(id)
    /\ metadata_parameters(get_node(id)[1].filter) # {}
    /\ nodes' = [i \in 1..Len(nodes) |->
                    IF nodes[i].id = id THEN set_parameter(nodes[i], "value", value)
                    ELSE nodes[i]]
    /\ nodes' # nodes
    /\ ret' = Call("set_parameter", <<id, "value", value>>, Ok(0))
    /\ UNCHANGED <<substrateVars, connections, nextNodeId, nextConnId, cache, now, eng, calls>>

NextParameters ==
    \/ NextEngine
    \/ \E id \in NodeIds, value \in ParameterValues : SetParameter(id, value)

SpecParameters == InitParameters /\ [][NextParameters]_vars

(***************************************************************************)
(* The mutexes of ResultCache (execution/cache.rs 169-180) with several    *)
(* threads calling one shared cache. A step is one acquisition of a mutex  *)
(* with the code that runs up to the next acquisition; a guard is released *)
(* where it goes out of scope.                                             *)
(*   locks.holder  : per mutex the thread holding it, 0 when free          *)
(*   locks.threads : per thread where it stands in its call                *)
(***************************************************************************)
\* Number of calls made on the shared cache in one behaviour.
MaxLockCalls == 3
\* Number of threads sharing the cache.
MaxLockThreads == 2

LockThreads == 1..MaxLockThreads

LockKeys == {CacheKey(n, {}) : n \in CacheNodeIds}

LockOutputs == {{<<"result", <<"Float", 0>>>>}, {<<"result", <<"String", 600000>>>>}}

Unlocked == [cache |-> 0, current_memory |-> 0, stats |-> 0]

\* A thread outside every call.
Resting == [pc |-> "rest", key |-> <<>>, entry |-> <<>>, freed |-> 0]

InCall(pc, key, entry, freed) == [pc |-> pc, key |-> key, entry |-> entry, freed |-> freed]

InitLocks ==
    /\ nodes = <<>>
    /\ connections = <<>>
    /\ nextNodeId = 1
    /\ nextConnId = 1
    /\ eng = <<>>
    /\ now = 0
    /\ calls = 0
    /\ ret = Call("new", <<>>, Ok(0))
    /\ \E mb \in MemoryLimitsMb :
            cache = ResultCache(MaxCapacity, mb * 1024 * 1024, DefaultTtl)
    /\ tracker = <<>>
    /\ chunked = <<>>
    /\ validation = <<>>
    /\ locks = [holder |-> Unlocked, threads |-> [t \in LockThreads |-> Resting]]

LockFrame == UNCHANGED <<nodes, connections, nextNodeId, nextConnId, eng, now,
                         tracker, chunked, validation>>

\* A thread enters one of the calls that take more than one step.
CallCache(t, pc, key, outputs) ==
    /\ locks.threads[t].pc = "rest"
    /\ calls < MaxLockCalls
    /\ calls' = calls + 1
    /\ locks' = [locks EXCEPT
                   !.threads[t] = InCall(pc, key,
                                         IF pc = "put_current"
                                         THEN <<CacheEntry(key, outputs, 0, now)>> ELSE <<>>,
                                         0)]
    /\ UNCHANGED <<cache, ret>>
    /\ LockFrame

\* put: self.current_memory.lock()
PutLockCurrent(t) ==
    /\ locks.threads[t].pc = "put_current"
    /\ locks.holder.current_memory = 0
    /\ locks' = [locks EXCEPT !.holder.current_memory = t, !.threads[t].pc = "put_loop"]
    /\ UNCHANGED <<cache, ret, calls>>
    /\ LockFrame

\* put: the head of the while loop; past the loop the size is added and the
\* guard of current_memory goes out of scope.
PutLoopHead(t) ==
    /\ locks.threads[t].pc = "put_loop"
    /\ LET entry_size == locks.threads[t].entry[1].memory_size
       IN  IF cache.current_memory + entry_size > cache.max_memory
           THEN /\ locks' = [locks EXCEPT !.threads[t].pc = "put_cache"]
                /\ cache' = cache
           ELSE /\ locks' = [locks EXCEPT !.holder.current_memory = 0,
                                          !.threads[t].pc = "put_insert"]
                /\ cache' = [cache EXCEPT !.current_memory = @ + entry_size]
    /\ UNCHANGED <<ret, calls>>
    /\ LockFrame

\* put, in the loop with current_memory held: self.cache.lock() and pop_lru;
\* None breaks out of the loop.
PutLockCache(t) ==
    /\ locks.threads[t].pc = "put_cache"
    /\ locks.holder.cache = 0
    /\ LET entry_size == locks.threads[t].entry[1].memory_size
       IN  IF cache.lru # <<>>
           THEN /\ locks' = [locks EXCEPT !.holder.cache = t, !.threads[t].pc = "put_stats"]
                /\ cache' = [cache EXCEPT
                               !.lru = SubSeq(cache.lru, 1, Len(cache.lru) - 1),
                               !.current_memory =
                                   saturating_sub(@, cache.lru[Len(cache.lru)].memory_size)]
           ELSE /\ locks' = [locks EXCEPT !.holder.current_memory = 0,
                                          !.threads[t].pc = "put_insert"]
                /\ cache' = [cache EXCEPT !.current_memory = @ + entry_size]
    /\ UNCHANGED <<ret, calls>>
    /\ LockFrame

\* put, in the loop with current_memory and cache held: self.stats.lock();
\* the guards of stats and cache go out of scope at the end of the iteration.
PutLockStats(t) ==
    /\ locks.threads[t].pc = "put_stats"
    /\ locks.holder.stats = 0
    /\ locks' = [locks EXCEPT !.holder.cache = 0, !.threads[t].pc = "put_loop"]
    /\ cache' = [cache EXCEPT !.stats.evictions = @ + 1]
    /\ UNCHANGED <<ret, calls>>
    /\ LockFrame

\* put: the last self.cache.lock() and LruCache::put.
PutInsert(t) ==
    /\ locks.threads[t].pc = "put_insert"
    /\ locks.holder.cache = 0
    /\ locks' = [locks EXCEPT !.threads[t] = Resting]
    /\ cache' = [cache EXCEPT !.lru = LruPut(cache.lru, cache.capacity, locks.threads[t].entry[1])]
    /\ ret' = Call("put", <<locks.threads[t].key>>, Ok(0))
    /\ UNCHANGED calls
    /\ LockFrame

\* get: self.cache.lock(); every branch goes on to self.stats.lock().
GetLockCache(t) ==
    /\ locks.threads[t].pc = "get_cache"
    /\ locks.holder.cache = 0
    /\ locks' = [locks EXCEPT !.holder.cache = t, !.threads[t].pc = "get_stats"]
    /\ UNCHANGED <<cache, ret, calls>>
    /\ LockFrame

\* get, with cache held: self.stats.lock(), the counters, the return.
GetLockStats(t) ==
    /\ locks.threads[t].pc = "get_stats"
    /\ locks.holder.stats = 0
    /\ locks' = [locks EXCEPT !.holder.cache = 0, !.threads[t] = Resting]
    /\ cache' = cache_get(cache, locks.threads[t].key, now).cache
    /\ ret' = Call("get", <<locks.threads[t].key>>, cache_get(cache, locks.threads[t].key, now).result)
    /\ UNCHANGED calls
    /\ LockFrame

\* invalidate: self.cache.lock() and pop; nothing more when the key is absent.
InvalidateLockCache(t) ==
    /\ locks.threads[t].pc = "invalidate_cache"
    /\ locks.holder.cache = 0
    /\ LET pos == LruPosition(cache.lru, locks.threads[t].key)
       IN  IF pos = 0
           THEN /\ locks' = [locks EXCEPT !.threads[t] = Resting]
                /\ cache' = cache
                /\ ret' = Call("invalidate", <<locks.threads[t].key>>, Ok(0))
           ELSE /\ locks' = [locks EXCEPT !.holder.cache = t,
                                          !.threads[t].pc = "invalidate_current",
                                          !.threads[t].freed = cache.lru[pos].memory_size]
                /\ cache' = [cache EXCEPT !.lru = RemoveAt(cache.lru, pos)]
                /\ ret' = ret
    /\ UNCHANGED calls
    /\ LockFrame

\* invalidate_node: self.cache.lock() and the pops; key holds the node id.
InvalidateNodeLockCache(t) ==
    /\ locks.threads[t].pc = "invalidate_node_cache"
    /\ locks.holder.cache = 0
    /\ LET removed == SelectSeq(cache.lru, LAMBDA e : e.key.node_id = locks.threads[t].key)
       IN  /\ locks' = [locks EXCEPT !.holder.cache = t,
                                     !.threads[t].pc = "invalidate_node_current",
                                     !.threads[t].freed = SumMemorySizes(removed)]
           /\ cache' = [cache EXCEPT
                          !.lru = SelectSeq(cache.lru,
                                            LAMBDA e : e.key.node_id # locks.threads[t].key)]
    /\ UNCHANGED <<ret, calls>>
    /\ LockFrame

\* invalidate and invalidate_node, with cache held: self.current_memory.lock().
InvalidateLockCurrent(t) ==
    /\ locks.threads[t].pc \in {"invalidate_current", "invalidate_node_current"}
    /\ locks.holder.current_memory = 0
    /\ locks' = [locks EXCEPT !.holder.cache = 0, !.threads[t] = Resting]
    /\ cache' = [cache EXCEPT !.current_memory = saturating_sub(@, locks.threads[t].freed)]
    /\ ret' = Call(IF locks.threads[t].pc = "invalidate_current"
                   THEN "invalidate" ELSE "invalidate_node",
                   <<locks.threads[t].key>>, Ok(0))
    /\ UNCHANGED calls
    /\ LockFrame

\* clear: self.cache.lock() and LruCache::clear.
ClearLockCache(t) ==
    /\ locks.threads[t].pc = "clear_cache"
    /\ locks.holder.cache = 0
    /\ locks' = [locks EXCEPT !.holder.cache = t, !.threads[t].pc = "clear_current"]
    /\ cache' = [cache EXCEPT !.lru = <<>>]
    /\ UNCHANGED <<ret, calls>>
    /\ LockFrame

\* clear, with cache held: *self.current_memory.lock() = 0.
ClearLockCurrent(t) ==
    /\ locks.threads[t].pc = "clear_current"
    /\ locks.holder.current_memory = 0
    /\ locks' = [locks EXCEPT !.holder.cache = 0, !.threads[t] = Resting]
    /\ cache' = [cache EXCEPT !.current_memory = 0]
    /\ ret' = Call("clear", <<>>, Ok(0))
    /\ UNCHANGED calls
    /\ LockFrame

\* stats: self.stats.lock().clone()
StatsCall(t) ==
    /\ locks.threads[t].pc = "rest"
    /\ calls < MaxLockCalls
    /\ locks.holder.stats = 0
    /\ calls' = calls + 1
    /\ ret' = Call("stats", <<>>, cache.stats)
    /\ UNCHANGED <<cache, locks>>
    /\ LockFrame

\* memory_usage: *self.current_memory.lock()
MemoryUsageCall(t) ==
    /\ locks.threads[t].pc = "rest"
    /\ calls < MaxLockCalls
    /\ locks.holder.current_memory = 0
    /\ calls' = calls + 1
    /\ ret' = Call("memory_usage", <<>>, cache.current_memory)
    /\ UNCHANGED <<cache, locks>>
    /\ LockFrame

NextLocks ==
    \E t \in LockThreads :
        \/ \E key \in LockKeys, outputs \in LockOutputs : CallCache(t, "put_current", key, outputs)
        \/ \E key \in LockKeys : CallCache(t, "get_cache", key, {})
        \/ \E key \in LockKeys : CallCache(t, "invalidate_cache", key, {})
        \/ \E node_id \in CacheNodeIds : CallCache(t, "invalidate_node_cache", node_id, {})
        \/ CallCache(t, "clear_cache", <<>>, {})
        \/ PutLockCurrent(t)
        \/ PutLoopHead(t)
        \/ PutLockCache(t)
        \/ PutLockStats(t)
        \/ PutInsert(t)
        \/ GetLockCache(t)
        \/ GetLockStats(t)
        \/ InvalidateLockCache(t)
        \/ InvalidateNodeLockCache(t)
        \/ InvalidateLockCurrent(t)
        \/ ClearLockCache(t)
        \/ ClearLockCurrent(t)
        \/ StatsCall(t)
        \/ MemoryUsageCall(t)

SpecLocks == InitLocks /\ [][NextLocks]_vars

(***************************************************************************)
(* TopologyAnalyzer::node_depth (graph/topology.rs 122-147) over graphs of *)
(* up to MaxDepthNodes nodes with several inputs each.                     *)
(***************************************************************************)
\* Number of nodes of the graphs node_depth is called on.
MaxDepthNodes == 4

\* The while loop of node_depth: the queue of (node, depth) pairs, the visited
\* set and max_depth; a node already visited is popped and passed over.
RECURSIVE node_depth_loop(_, _, _)
node_depth_loop(queue, visited, max_depth) ==
    IF queue = <<>> THEN max_depth
    ELSE LET current == Head(queue)[1]
             depth == Head(queue)[2]
             conns == connections_to(current)
         IN  IF current \in visited
             THEN node_depth_loop(Tail(queue), visited, max_depth)
             ELSE node_depth_loop(
                    Tail(queue) \o [i \in 1..Len(conns) |-> <<conns[i].from.node_id, depth + 1>>],
                    visited \cup {current},
                    IF conns = <<>> THEN max_depth ELSE MaxOf({max_depth, depth + 1}, 0))

node_depth(node_id) ==
    IF ~has_node(node_id) THEN <<"NodeNotFound", node_id>>
    ELSE Ok(node_depth_loop(<<<<node_id, 0>>>>, {}, 0))

\* The connections a graph may hold: from the images output of a node into an
\* input of a node with a larger id.
DepthEdges == <<<<1, 2>>, <<1, 3>>, <<2, 3>>, <<1, 4>>, <<2, 4>>, <<3, 4>>>>

\* What connect builds for a choice of edges: the k-th connection into a node
\* goes to its k-th input.
DepthConnections(chosen) ==
    LET edges == SelectSeq(DepthEdges, LAMBDA e : e \in chosen)
        port(i) == <<"images1", "images2", "images3">>[
                        Cardinality({j \in 1..i : edges[j][2] = edges[i][2]})]
    IN  [i \in 1..Len(edges) |->
            Connection(i, Endpoint(edges[i][1], "images"), Endpoint(edges[i][2], port(i)))]

InitDepth ==
    /\ nodes = [i \in 1..MaxDepthNodes |-> GraphNode(i, array_concat)]
    /\ \E chosen \in SUBSET Range(DepthEdges) : connections = DepthConnections(chosen)
    /\ nextNodeId = MaxDepthNodes + 1
    /\ nextConnId = Len(connections) + 1
    /\ ret = Call("new", <<>>, Ok(0))
    /\ NoEngine

NodeDepthCall(node_id) ==
    /\ ret' = Call("node_depth", <<node_id>>, node_depth(node_id))
    /\ UNCHANGED <<nodes, connections, nextNodeId, nextConnId>>
    /\ UNCHANGED <<engineVars, substrateVars>>

NextDepth ==
    \/ \E node_id \in 1..(MaxDepthNodes + 1) : NodeDepthCall(node_id)
    \/ ParallelBatches

SpecDepth == InitDepth /\ [][NextDepth]_vars

(***************************************************************************)
(* The ExecutionContext handed to a filter (core/context.rs).              *)
(***************************************************************************)
\* ExecutionContext::with_memory_settings
with_memory_settings(node_id) ==
    [node_id |-> node_id, inputs |-> {}, parameters |-> {}, cancelled |-> FALSE]

\* The context execute_node builds for a node before it calls the filter:
\* add_input for the gathered inputs, add_parameter for the parameters.
execution_context(node_id) ==
    [with_memory_settings(node_id) EXCEPT
        !.inputs = gather_inputs(node_id, eng.all_outputs),
        !.parameters = context_parameters(get_node(node_id)[1])]

\* ExecutionContext::check_cancelled
check_cancelled(ctx) == IF ctx.cancelled THEN Err(Cancelled) ELSE Ok(0)

(***************************************************************************)
(* StructuralValidation::validate (validation/stages.rs 39-115) on a graph *)
(* with disabled nodes, run by a pipeline that holds this stage alone      *)
(* (ValidationPipeline::new(vec![Box::new(StructuralValidation)])).        *)
(***************************************************************************)
\* PortDefinition::optional: false unless optional() was used.
optional(input) == IF "optional" \in DOMAIN input THEN input.optional ELSE FALSE

\* TopologyAnalyzer::has_cycle
has_cycle == ~IsOk(topological_sort(node_ids))

\* TopologyAnalyzer::flood_fill: the nodes connected to start, in either
\* direction.
RECURSIVE flood_fill_loop(_)
flood_fill_loop(visited) ==
    LET next == {n \in Range(node_ids) \ visited :
                    \E i \in 1..Len(connections) :
                        \/ connections[i].from.node_id \in visited /\ connections[i].to.node_id = n
                        \/ connections[i].to.node_id \in visited /\ connections[i].from.node_id = n}
    IN  IF next = {} THEN visited ELSE flood_fill_loop(visited \cup next)

flood_fill(start) == flood_fill_loop({start})

\* TopologyAnalyzer::find_subgraphs, as the set of subgraphs.
find_subgraphs == {flood_fill(n) : n \in Range(node_ids)}

\* The loop over the inputs of one node: an error per required input without
\* connection.
missing_required_inputs(node) ==
    LET required == SelectSeq(node.filter.inputs,
                              LAMBDA input :
                                /\ ~optional(input)
                                /\ default_value(input) = <<>>
                                /\ ~\E i \in 1..Len(connections) :
                                        /\ connections[i].to.node_id = node.id
                                        /\ connections[i].to.port_name = input.name)
    IN  [i \in 1..Len(required) |-> ValidationError("MissingRequiredInput", node.id)]

RECURSIVE missing_inputs_of(_)
missing_inputs_of(node_seq) ==
    IF node_seq = <<>> THEN <<>>
    ELSE missing_required_inputs(Head(node_seq)) \o missing_inputs_of(Tail(node_seq))

SubgraphsWarning == ValidationWarning("Graph contains disconnected subgraphs")

DisabledWarning(node_id) ==
    ValidationWarning(<<"Disabled node has downstream connections", node_id>>)

\* The end of StructuralValidation::validate: Ok(warnings) without errors,
\* else Err(errors).
stage_return(errors, warnings) ==
    IF errors = <<>> THEN Ok(warnings) ELSE Err(errors)

structural_validate(disabled) ==
    IF nodes = <<>>
    THEN Ok(<<ValidationWarning("Graph is empty")>>)
    ELSE LET errors == (IF has_cycle THEN <<ValidationError("CycleDetected", 0)>> ELSE <<>>)
                       \o missing_inputs_of(nodes)
             with_downstream == SelectSeq(node_ids,
                                          LAMBDA n : n \in disabled /\ connections_from(n) # <<>>)
             warnings == (IF Cardinality(find_subgraphs) > 1
                          THEN <<SubgraphsWarning>> ELSE <<>>)
                         \o [i \in 1..Len(with_downstream) |-> DisabledWarning(with_downstream[i])]
         IN  stage_return(errors, warnings)

\* The graphs handed to validate, each what add_filter and connect build from
\* filters whose inputs are all required:
\*   chain, join as above
\*   apart  : float_constant -> to_string, and a to_string on its own
\*   sources: three float_constant, no connection
\*   starved: add without inputs -> to_string and -> to_string
StructuralGraphs ==
    {[nodes |-> <<GraphNode(1, float_constant), GraphNode(2, to_string), GraphNode(3, to_string)>>,
      connections |-> <<Connection(1, Endpoint(1, "value"), Endpoint(2, "value")),
                        Connection(2, Endpoint(2, "result"), Endpoint(3, "value"))>>],
     [nodes |-> <<GraphNode(1, float_constant), GraphNode(2, float_constant), GraphNode(3, add)>>,
      connections |-> <<Connection(1, Endpoint(1, "value"), Endpoint(3, "a")),
                        Connection(2, Endpoint(2, "value"), Endpoint(3, "b"))>>],
     [nodes |-> <<GraphNode(1, float_constant), GraphNode(2, to_string), GraphNode(3, to_string)>>,
      connections |-> <<Connection(1, Endpoint(1, "value"), Endpoint(2, "value"))>>],
     [nodes |-> <<GraphNode(1, float_constant), GraphNode(2, float_constant),
                  GraphNode(3, float_constant)>>,
      connections |-> <<>>],
     [nodes |-> <<GraphNode(1, add), GraphNode(2, to_string), GraphNode(3, to_string)>>,
      connections |-> <<Connection(1, Endpoint(1, "result"), Endpoint(2, "value")),
                        Connection(2, Endpoint(1, "result"), Endpoint(3, "value"))>>]}

InitStructural ==
    /\ \E graph \in StructuralGraphs :
            /\ nodes = graph.nodes
            /\ connections = graph.connections
    /\ nextNodeId = Len(nodes) + 1
    /\ nextConnId = Len(connections) + 1
    /\ cache = <<>>
    /\ now = 0
    /\ eng = <<>>
    /\ calls = 0
    /\ tracker = <<>>
    /\ chunked = <<>>
    /\ locks = <<>>
    /\ ret = Call("new", <<>>, Ok(0))
    /\ \E disabled \in SUBSET Range(node_ids) :
            validation = [stages |-> <<"StructuralValidation">>,
                          results |-> <<structural_validate(disabled)>>,
                          disabled |-> disabled,
                          next |-> 1, ran |-> <<>>, report |-> ValidationReport,
                          returned |-> FALSE]

NextStructural == StageOk \/ StageErr \/ ValidateReturns

SpecStructural == InitStructural /\ [][NextStructural]_vars

(***************************************************************************)
(* Definitions used to state the claims. They are written from the         *)
(* statements, independently of the operators above.                       *)
(***************************************************************************)
NodeIdSet == {nodes[i].id : i \in 1..Len(nodes)}

NodeOf(id) == CHOOSE n \in Range(nodes) : n.id = id

HasOutput(id, port) ==
    /\ id \in NodeIdSet
    /\ \E p \in Range(NodeOf(id).filter.outputs) : p.name = port

HasInput(id, port) ==
    /\ id \in NodeIdSet
    /\ \E p \in Range(NodeOf(id).filter.inputs) : p.name = port

OutputType(id, port) ==
    (CHOOSE p \in Range(NodeOf(id).filter.outputs) : p.name = port).port_type

InputType(id, port) ==
    (CHOOSE p \in Range(NodeOf(id).filter.inputs) : p.name = port).port_type

Edges == {<<c.from.node_id, c.to.node_id>> : c \in Range(connections)}

RECURSIVE Closure(_, _)
Closure(R, k) ==
    IF k = 0 THEN R
    ELSE Closure(R \cup {<<p[1][1], p[2][2]>> : p \in {q \in R \X R : q[1][2] = q[2][1]}}, k - 1)

\* b is reachable from a along one or more connections.
Reaches(a, b) == <<a, b>> \in Closure(Edges, Cardinality(Edges))

TargetConnected(node_id, port) ==
    \E c \in Range(connections) : c.to.node_id = node_id /\ c.to.port_name = port

\* Compatibility of port types as the data model states it.
RECURSIVE Compatible(_, _)
Compatible(a, b) ==
    \/ a = <<"Any">>
    \/ b = <<"Any">>
    \/ a = <<"Integer">> /\ b = <<"Float">>
    \/ a[1] = "Array" /\ b[1] = "Array" /\ Compatible(a[2], b[2])
    \/ a[1] = "Map" /\ b[1] = "Map" /\ Compatible(a[2], b[2])
    \/ a = b

\* Position of x in a sequence without repetition (0 when absent).
Pos(s, x) == IF \E i \in 1..Len(s) : s[i] = x THEN CHOOSE i \in 1..Len(s) : s[i] = x ELSE 0

NoRepetition(s) == \A i, j \in 1..Len(s) : s[i] = s[j] => i = j

\* new holds exactly the elements of old that satisfy Keep, in the order of old.
IsFilteredCopy(new, old, Keep(_)) ==
    /\ NoRepetition(new)
    /\ Range(new) = {x \in Range(old) : Keep(x)}
    /\ \A i, j \in 1..Len(new) : i < j => Pos(old, new[i]) < Pos(old, new[j])

\* The failure conditions of a connect call <<src, src_port, dst, dst_port>>.
NodeMissing(a) == a[1] \notin NodeIdSet \/ a[3] \notin NodeIdSet

PortMissing(a) == ~HasOutput(a[1], a[2]) \/ ~HasInput(a[3], a[4])

TypesMismatch(a) == ~Compatible(OutputType(a[1], a[2]), InputType(a[3], a[4]))

WouldCycle(a) == a[1] = a[3] \/ Reaches(a[3], a[1])

\* The node, port, type and already-connected checks pass for the call.
PassesUpToConnected(a) ==
    /\ ~NodeMissing(a)
    /\ ~PortMissing(a)
    /\ ~TypesMismatch(a)
    /\ ~TargetConnected(a[3], a[4])

\* The error that comes first in the documented order, "Ok" when none applies.
FirstFailure(a) ==
    IF NodeMissing(a) THEN "NodeNotFound"
    ELSE IF PortMissing(a) THEN "PortNotFound"
    ELSE IF TypesMismatch(a) THEN "TypeMismatch"
    ELSE IF TargetConnected(a[3], a[4]) THEN "PortAlreadyConnected"
    ELSE IF WouldCycle(a) THEN "CycleDetected"
    ELSE "Ok"

(***************************************************************************)
(* Claims about the graph store.                                           *)
(***************************************************************************)

\* C1: after any sequence of add_node, remove_node, connect, disconnect and
\* disconnect_input calls no node is reachable from itself along one or more
\* connections.
C1_NoDirectedCycle == \A n \in NodeIds : ~Reaches(n, n)

\* A connect that would have closed a path of two connections was rejected.
C1_Witness ==
    /\ ret.op = "connect"
    /\ ret.result[1] = "CycleDetected"
    /\ ret.args[1] # ret.args[3]
    /\ <<ret.args[3], ret.args[1]>> \notin Edges
    /\ Len(connections) = 2

\* C2: every (node, input port) pair is the target of at most one connection,
\* and a connect whose target input port already has an incoming connection
\* never succeeds and adds nothing; it returns PortAlreadyConnected for that
\* node and port when the node, port and type checks, which come first, pass.
C2_SingleIncoming ==
    [][ /\ \A c, d \in Range(connections') : c.to = d.to => c = d
        /\ (ret'.op = "connect" /\ TargetConnected(ret'.args[3], ret'.args[4]))
              => /\ ~IsOk(ret'.result)
                 /\ connections' = connections
                 /\ nodes' = nodes
                 /\ (~NodeMissing(ret'.args) /\ ~PortMissing(ret'.args)
                        /\ ~TypesMismatch(ret'.args))
                      => ret'.result = <<"PortAlreadyConnected", ret'.args[3], ret'.args[4]>>
      ]_vars

\* C2 as first stated: every connect whose target input port already has an
\* incoming connection returns PortAlreadyConnected, whatever the earlier
\* checks find.
C2_AlwaysPortAlreadyConnected ==
    [][ /\ \A c, d \in Range(connections') : c.to = d.to => c = d
        /\ (ret'.op = "connect" /\ TargetConnected(ret'.args[3], ret'.args[4]))
              => /\ ret'.result = <<"PortAlreadyConnected", ret'.args[3], ret'.args[4]>>
                 /\ connections' = connections
      ]_vars

\* A connect was rejected because its target input port was taken.
C2_Witness ==
    /\ ret.op = "connect"
    /\ ret.result[1] = "PortAlreadyConnected"
    /\ TargetConnected(ret.args[3], ret.args[4])

\* C3: whenever connect, remove_node or disconnect returns an error, the
\* node map and the connection list are what they were before the call.
C3_ErrorLeavesGraph ==
    [][ (ret'.op \in {"connect", "remove_node", "disconnect"} /\ ~IsOk(ret'.result))
            => (nodes' = nodes /\ connections' = connections)
      ]_vars

\* remove_node of an absent node returned NodeNotFound on a graph that holds
\* two connections.
C3_Witness ==
    /\ ret.op = "remove_node"
    /\ ret.result[1] = "NodeNotFound"
    /\ Len(connections) = 2
    /\ Len(nodes) = 2

\* C4: connect returns the error that comes first in the order NodeNotFound,
\* PortNotFound, TypeMismatch, PortAlreadyConnected, CycleDetected among the
\* failure conditions that hold for the call, and succeeds when none holds.
C4_CheckOrder ==
    [][ ret'.op = "connect" => ret'.result[1] = FirstFailure(ret'.args) ]_vars

\* A call for which the types mismatch, the target port is taken and a cycle
\* would be closed returned TypeMismatch.
C4_Witness ==
    /\ ret.op = "connect"
    /\ ret.result[1] = "TypeMismatch"
    /\ TargetConnected(ret.args[3], ret.args[4])
    /\ WouldCycle(ret.args)

\* C5: when the node, port, type and already-connected checks pass,
\* connect(src, _, dst, _) returns CycleDetected with nodes = [src, dst]
\* exactly when src is reachable from dst (src = dst included) and leaves the
\* list alone; otherwise it appends the new connection at the end of the list.
C5_CycleCheck ==
    [][ (ret'.op = "connect" /\ PassesUpToConnected(ret'.args))
            => IF WouldCycle(ret'.args)
               THEN /\ ret'.result = <<"CycleDetected", <<ret'.args[1], ret'.args[3]>>>>
                    /\ connections' = connections
               ELSE /\ IsOk(ret'.result)
                    /\ Len(connections') = Len(connections) + 1
                    /\ SubSeq(connections', 1, Len(connections)) = connections
                    /\ connections'[Len(connections')].from = Endpoint(ret'.args[1], ret'.args[2])
                    /\ connections'[Len(connections')].to = Endpoint(ret'.args[3], ret'.args[4])
                    /\ connections'[Len(connections')].id = ret'.result[2]
      ]_vars

\* CycleDetected for a source that the target reaches only through a third node.
C5_Witness ==
    /\ ret.op = "connect"
    /\ ret.result = <<"CycleDetected", <<ret.args[1], ret.args[3]>>>>
    /\ ret.args[1] # ret.args[3]
    /\ <<ret.args[3], ret.args[1]>> \notin Edges
    /\ PassesUpToConnected(ret.args)

\* C6: for existing nodes and ports connect returns TypeMismatch, carrying the
\* two types, exactly when the source output type is not compatible with the
\* target input type; Integer to Float is not a mismatch and Float to Integer
\* returns TypeMismatch{from = Float, to = Integer}.
C6_TypeMismatchIffIncompatible ==
    (ret.op = "connect" /\ ~NodeMissing(ret.args) /\ ~PortMissing(ret.args))
        => LET from_type == OutputType(ret.args[1], ret.args[2])
               to_type == InputType(ret.args[3], ret.args[4])
           IN  /\ (ret.result[1] = "TypeMismatch") <=> ~Compatible(from_type, to_type)
               /\ ~Compatible(from_type, to_type)
                    => ret.result = <<"TypeMismatch", from_type, to_type>>
               /\ (from_type = <<"Integer">> /\ to_type = <<"Float">>)
                    => ret.result[1] \in {"Ok", "PortAlreadyConnected", "CycleDetected"}
               /\ (from_type = <<"Float">> /\ to_type = <<"Integer">>)
                    => ret.result = <<"TypeMismatch", <<"Float">>, <<"Integer">>>>

\* A Float output offered to an Integer input was refused.
C6_Witness ==
    /\ ret.op = "connect"
    /\ ret.result = <<"TypeMismatch", <<"Float">>, <<"Integer">>>>

\* An Integer output was connected to a Float input.
C6_WitnessWidening ==
    /\ ret.op = "connect"
    /\ IsOk(ret.result)
    /\ OutputType(ret.args[1], ret.args[2]) = <<"Integer">>
    /\ InputType(ret.args[3], ret.args[4]) = <<"Float">>

\* C7: every connection's source names an existing node with an output port of
\* that name and its target names an existing node with an input port of that
\* name, also after add_node of a GraphNode whose id is already in the graph.
C7_EndpointsValid ==
    \A c \in Range(connections) :
        /\ HasOutput(c.from.node_id, c.from.port_name)
        /\ HasInput(c.to.node_id, c.to.port_name)

\* C8: a successful remove_node(id) removes node id and exactly the connections
\* whose source or target is id; the other nodes and connections remain, in
\* the same relative order.
C8_RemoveNodeFrame ==
    [][ (ret'.op = "remove_node" /\ IsOk(ret'.result))
            => LET id == ret'.args[1]
                   KeepNode(n) == n.id # id
                   KeepConn(c) == c.from.node_id # id /\ c.to.node_id # id
               IN  /\ id \in NodeIdSet
                   /\ ret'.result[2] = NodeOf(id)
                   /\ IsFilteredCopy(nodes', nodes, KeepNode)
                   /\ IsFilteredCopy(connections', connections, KeepConn)
      ]_vars

\* The first of three nodes was removed together with its connection, and a
\* connection between the two remaining nodes stayed.
C8_Witness ==
    /\ ret.op = "remove_node"
    /\ IsOk(ret.result)
    /\ Len(nodes) = 2
    /\ ret.result[2].id < nodes[1].id
    /\ Len(connections) = 1
    /\ nextConnId = 3

(***************************************************************************)
(* Claims about the topology analyser.                                     *)
(***************************************************************************)

\* C9: topological_sort returns Ok with a list that holds every node id
\* exactly once and in which the source of every connection comes before its
\* target.
C9_TopologicalSort ==
    ret.op = "topological_sort"
        => /\ IsOk(ret.result)
           /\ NoRepetition(ret.result[2])
           /\ Range(ret.result[2]) = NodeIdSet
           /\ \A c \in Range(connections) :
                Pos(ret.result[2], c.from.node_id) < Pos(ret.result[2], c.to.node_id)

\* A sort of three nodes where one node has two parents.
C9_Witness ==
    /\ ret.op = "topological_sort"
    /\ IsOk(ret.result)
    /\ Len(nodes) = 3
    /\ \E c, d \in Range(connections) : c # d /\ c.to.node_id = d.to.node_id

\* The batch (1-based) that holds node n, 0 when no batch does.
BatchOf(batches, n) ==
    IF \E i \in 1..Len(batches) : n \in Range(batches[i])
    THEN CHOOSE i \in 1..Len(batches) : n \in Range(batches[i])
    ELSE 0

\* C10: parallel_batches returns non-empty batches that partition the node
\* set; no node of a batch is an ancestor of another node of the same batch,
\* and every parent of a node lies in a strictly earlier batch.
C10_ParallelBatches ==
    ret.op = "parallel_batches"
        => /\ IsOk(ret.result)
           /\ LET batches == ret.result[2]
              IN  /\ \A i \in 1..Len(batches) : batches[i] # <<>> /\ NoRepetition(batches[i])
                  /\ UNION {Range(batches[i]) : i \in 1..Len(batches)} = NodeIdSet
                  /\ \A i, j \in 1..Len(batches) :
                        i # j => Range(batches[i]) \cap Range(batches[j]) = {}
                  /\ \A i \in 1..Len(batches) :
                        \A x, y \in Range(batches[i]) : ~Reaches(x, y)
                  /\ \A c \in Range(connections) :
                        BatchOf(batches, c.from.node_id) < BatchOf(batches, c.to.node_id)

\* Two independent nodes share the first batch and their child is in the second.
C10_Witness ==
    /\ ret.op = "parallel_batches"
    /\ IsOk(ret.result)
    /\ Len(ret.result[2]) = 2
    /\ Len(ret.result[2][1]) = 2
    /\ Len(connections) = 2

\* The nodes of the graph without incoming connection, in insertion order.
SourcesInInsertionOrder ==
    SelectSeq([i \in 1..Len(nodes) |-> nodes[i].id],
              LAMBDA n : \A c \in Range(connections) : c.to.node_id # n)

\* C11: topological_sort and parallel_batches are deterministic and follow
\* insertion order: the nodes without incoming connection are emitted in node
\* insertion order, and two calls in a row on the same graph return the same
\* sequences, the order inside each batch included.
C11_DeterministicOrder ==
    [][ /\ (ret'.op = "topological_sort" /\ IsOk(ret'.result))
              => SelectSeq(ret'.result[2], LAMBDA n : n \in Range(SourcesInInsertionOrder))
                    = SourcesInInsertionOrder
        /\ (ret'.op \in {"topological_sort", "parallel_batches"} /\ ret.op = ret'.op)
              => ret'.result = ret.result
      ]_vars

(***************************************************************************)
(* Claims about the result cache.                                          *)
(***************************************************************************)
\* The entries a cache holds under a key.
Held(c, key) == {e \in Range(c.lru) : e.key = key}

\* The output maps a cache holds under a key.
HeldOutputs(c, key) == {e.outputs : e \in Held(c, key)}

\* C20: after put(k, v, t) the cache holds v under k; the value held under a
\* key stays until a put, an invalidate, an invalidate_node or a clear that
\* concerns the key, an eviction by a put, or its expiry; and get(k) returns a
\* copy of the value held under k when it has not expired. A later put on the
\* same key therefore replaces what get returns.
C20_PutThenGet ==
    [][ /\ ret'.op = "put"
              => HeldOutputs(cache', ret'.args[1]) = {ret'.args[2]}
        /\ ret'.op = "get"
              => \A e \in Held(cache, ret'.args[1]) :
                    now - e.created_at <= cache.ttl => ret'.result = <<e.outputs>>
        /\ \A k \in CacheKeys :
              (Held(cache, k) # {} /\ HeldOutputs(cache', k) # HeldOutputs(cache, k))
                  => \/ ret'.op = "put" /\ ret'.args[1] = k
                     \/ /\ ret'.op = "put"
                        /\ Held(cache, ret'.args[1]) = {}
                        /\ Len(cache.lru) >= cache.capacity
                     \/ /\ ret'.op = "put"
                        /\ cache.current_memory
                              + (CHOOSE e \in Held(cache', ret'.args[1]) : TRUE).memory_size
                                > cache.max_memory
                     \/ ret'.op = "invalidate" /\ ret'.args[1] = k
                     \/ ret'.op = "invalidate_node" /\ ret'.args[1] = k.node_id
                     \/ ret'.op = "clear"
                     \/ /\ ret'.op = "get"
                        /\ ret'.args[1] = k
                        /\ \E e \in Held(cache, k) : now - e.created_at > cache.ttl
      ]_vars

\* A get returned the value of the second put on its key, after the clock has
\* advanced and with another key in the cache.
C20_Witness ==
    /\ ret.op = "get"
    /\ ret.result # <<>>
    /\ calls = 4
    /\ now > 0
    /\ Len(cache.lru) = 2
    /\ cache.lru[1].created_at > 0

(***************************************************************************)
(* Claims about the execution engine.                                      *)
(***************************************************************************)
\* The nodes with a connection into n.
Parents(n) == {c.from.node_id : c \in Range(connections_to(n))}

\* The step reports the start of node n.
StartedNow(n) ==
    /\ eng.phase = "batch"
    /\ Len(eng'.events) = Len(eng.events) + 1
    /\ eng'.events[Len(eng'.events)] = <<"NodeStarted", n>>

\* The run has an event e.
Reported(e) == \E i \in 1..Len(eng.events) : eng.events[i] = e

\* execute_node has returned for p in an earlier batch of the run.
Returned(p) ==
    /\ p \notin DOMAIN eng.local
    /\ \/ Reported(<<"NodeCompleted", p>>)
       \/ Reported(<<"NodeSkipped", p, "Cached">>)
       \/ Reported(<<"NodeSkipped", p, "Disabled">>)
       \/ Reported(<<"Error", p>>)

ReturnsNow == eng.phase # "idle" /\ eng'.phase = "idle"

CachedKeys(c) == {c.lru[i].key : i \in 1..Len(c.lru)}

UnitOf(n) == CHOOSE i \in 1..Len(eng.plan) : n \in Range(eng.plan[i])

\* The nodes of the plan in the order execute goes over their results.
RECURSIVE Flatten(_)
Flatten(batches) ==
    IF batches = <<>> THEN <<>> ELSE Head(batches) \o Flatten(Tail(batches))

\* The nodes whose execute_node reported an error in the run.
FailedNodes == {n \in NodeIds : Reported(<<"Error", n>>)}

\* The first failed node in the order of the plan.
FirstFailed ==
    LET order == Flatten(eng.plan)
    IN  order[CHOOSE i \in 1..Len(order) :
                 /\ order[i] \in FailedNodes
                 /\ \A j \in 1..(i - 1) : order[j] \notin FailedNodes]

\* The error execute_node returns for node n given the outputs stored so far.
ErrorOf(n) == filter_execute(get_node(n)[1].filter, n, gather_inputs(n, eng.all_outputs),
                                    context_parameters(get_node(n)[1]))

\* A run has returned and no other has begun.
AfterRun == eng # <<>> /\ eng.phase = "idle" /\ ret.op = "execute"

\* C15: with stop_on_error = true, once a node has failed the run returns Err
\* with the error of the first failed node, and no node of a later batch
\* (later in the execution order in a sequential run) has been started.
C15_StopOnError ==
    (AfterRun /\ eng.options.stop_on_error /\ FailedNodes # {}) =>
        /\ ret.result = ErrorOf(FirstFailed)
        /\ ~IsOk(ret.result)
        /\ \A n \in NodeIds :
              (Reported(<<"NodeStarted", n>>) \/ n \in Range(eng.invoked))
                 => UnitOf(n) <= UnitOf(FirstFailed)
        /\ eng.batches = SubSeq(eng.plan, UnitOf(FirstFailed) + 1, Len(eng.plan))

\* A parallel and a sequential run stopped by a failed node that has nodes after it.
C15_Witness ==
    /\ AfterRun
    /\ eng.options.stop_on_error
    /\ FailedNodes = {2}
    /\ UnitOf(2) < Len(eng.plan)
    /\ ret.result = Err(NodeExecution(2))

\* The run handled node n: it was started or skipped.
Handled(n) ==
    \/ Reported(<<"NodeStarted", n>>)
    \/ Reported(<<"NodeSkipped", n, "Disabled">>)

\* The errors of the result hold an entry of node n whose error is of the kind given.
ListedWith(errors, n, kind) ==
    \E i \in 1..Len(errors) : errors[i][1] = n /\ errors[i][2][1] = kind

\* C16: with stop_on_error = false a run that is not cancelled returns Ok,
\* every failing node is in result.errors with its id, every node is still
\* run, and every started node with a connection from a failed node fails
\* with MissingInput.
C16_ContinueOnError ==
    (AfterRun /\ ~eng.options.stop_on_error /\ ret.result # Err(Cancelled)) =>
        /\ IsOk(ret.result)
        /\ \A n \in FailedNodes :
              \E i \in 1..Len(ret.result[2].errors) : ret.result[2].errors[i][1] = n
        /\ \A n \in Range(node_ids) : Handled(n)
        /\ \A n \in Range(node_ids) :
              (Parents(n) \cap FailedNodes # {} /\ Reported(<<"NodeStarted", n>>)) =>
                  ListedWith(ret.result[2].errors, n, "MissingInput")

\* The nodes of the run that executed successfully, were served from the
\* cache or were skipped as disabled.
SucceededNodes ==
    {n \in NodeIds : \/ Reported(<<"NodeCompleted", n>>)
                     \/ Reported(<<"NodeSkipped", n, "Cached">>)
                     \/ Reported(<<"NodeSkipped", n, "Disabled">>)}

\* C17: when execute returns Ok, all_outputs has an entry for exactly the
\* nodes that executed successfully, were served from the cache or were
\* skipped as disabled, and outputs is the restriction of all_outputs to the
\* nodes without outgoing connection.
C17_Outputs ==
    (AfterRun /\ IsOk(ret.result)) =>
        LET result == ret.result[2]
        IN  /\ MapKeys(result.all_outputs) = SucceededNodes
            /\ \A n \in SucceededNodes : Cardinality({p \in result.all_outputs : p[1] = n}) = 1
            /\ result.outputs =
                  {p \in result.all_outputs :
                      \A c \in Range(connections) : c.from.node_id # p[1]}

\* A second run that returned Ok with one node served from the cache and the
\* terminal node executed: outputs is a proper part of all_outputs.
C17_Witness ==
    /\ AfterRun
    /\ IsOk(ret.result)
    /\ calls = 2
    /\ Reported(<<"NodeSkipped", 2, "Cached">>)
    /\ Reported(<<"NodeCompleted", 3>>)
    /\ MapKeys(ret.result[2].outputs) = {3}
    /\ MapKeys(ret.result[2].all_outputs) = {1, 2, 3}

\* Sum of the estimated sizes of the cache entries of a set of output maps.
RECURSIVE SumOutputSizes(_)
SumOutputSizes(all_outputs) ==
    IF all_outputs = {} THEN 0
    ELSE LET p == CHOOSE q \in all_outputs : TRUE
         IN  estimate_memory_size(p[2]) + SumOutputSizes(all_outputs \ {p})

\* A run with use_cache on a graph of enabled nodes, no more than the cache
\* capacity, returned Ok with no node failed.
CachedRunSucceeded ==
    /\ AfterRun
    /\ eng.options.use_cache
    /\ eng.disabled = {}
    /\ Len(nodes) <= cache.capacity
    /\ IsOk(ret.result)
    /\ ret.result[2].errors = <<>>

PositionsOf(e) == {i \in 1..Len(eng.events) : eng.events[i] = e}

\* C19: within one run, under any interleaving of the nodes of a batch, every
\* NodeCompleted of a node is preceded by a NodeStarted of that node, and a
\* node has at most one NodeStarted and at most one NodeCompleted.
C19_StartedBeforeCompleted ==
    eng # <<>> =>
        \A n \in NodeIds :
            /\ Cardinality(PositionsOf(<<"NodeStarted", n>>)) <= 1
            /\ Cardinality(PositionsOf(<<"NodeCompleted", n>>)) <= 1
            /\ \A i \in PositionsOf(<<"NodeCompleted", n>>) :
                  \E j \in PositionsOf(<<"NodeStarted", n>>) : j < i

\* A parallel batch whose two nodes ran interleaved: the second started
\* before the first completed, and completed first.
C19_Witness ==
    /\ eng # <<>>
    /\ eng.options.parallel
    /\ \E a, b \in NodeIds :
          /\ a # b
          /\ \E sa \in PositionsOf(<<"NodeStarted", a>>),
                sb \in PositionsOf(<<"NodeStarted", b>>),
                ca \in PositionsOf(<<"NodeCompleted", a>>),
                cb \in PositionsOf(<<"NodeCompleted", b>>) :
                sa < sb /\ sb < cb /\ cb < ca

(***************************************************************************)
(* Further claims about the result cache.                                  *)
(***************************************************************************)
\* C21: after any sequence of put, get, invalidate, invalidate_node and clear
\* calls on a cache with a positive byte limit, memory_usage() does not
\* exceed max_memory, whatever the estimated size of the entries.
C21_MemoryBound ==
    (cache # <<>> /\ cache.max_memory > 0) => cache.current_memory <= cache.max_memory

\* The entries of lru without that of the key.
Without(lru, key) == SelectSeq(lru, LAMBDA e : e.key # key)

\* s is an initial part of t.
IsPrefix(s, t) == Len(s) <= Len(t) /\ s = SubSeq(t, 1, Len(s))

\* C22: the number of entries never exceeds the capacity. The entries are
\* kept in the order of their last use: a put and a get hit make their key
\* the most recently used and keep the order of the others; the entries a put
\* removes, for the count bound or the byte bound, are the least recently
\* used ones.
C22_LruEviction ==
    [][/\ Len(cache'.lru) <= cache'.capacity
       /\ (ret'.op = "put" /\ calls' = calls + 1) =>
             /\ cache'.lru[1].key = ret'.args[1]
             /\ IsPrefix(Tail(cache'.lru), Without(cache.lru, ret'.args[1]))
       /\ (ret'.op = "get" /\ calls' = calls + 1 /\ ret'.result # <<>>) =>
             /\ cache'.lru[1].key = ret'.args[1]
             /\ Tail(cache'.lru) = Without(cache.lru, ret'.args[1])
             /\ Len(cache'.lru) = Len(cache.lru)]_vars

\* A put had to evict for the byte bound after a get hit on the older entry:
\* the entry that was read is kept, the one put after it is gone.
C22_Witness ==
    /\ cache # <<>>
    /\ ret.op = "put"
    /\ calls = 4
    /\ cache.stats.hits = 1
    /\ cache.stats.evictions = 1
    /\ Len(cache.lru) = 2
    /\ cache.lru[1].memory_size > 600000
    /\ cache.lru[2].memory_size < 100

\* C23: every get increments exactly one of stats.hits and stats.misses, hits
\* when it returns an entry and misses when it returns none (absent or
\* expired key); put, invalidate, invalidate_node and clear change neither
\* counter. Hence hits + misses is the number of get calls.
C23_HitsAndMisses ==
    [][IF ret'.op = "get" /\ calls' = calls + 1
       THEN IF ret'.result # <<>>
            THEN /\ cache'.stats.hits = cache.stats.hits + 1
                 /\ cache'.stats.misses = cache.stats.misses
            ELSE /\ cache'.stats.hits = cache.stats.hits
                 /\ cache'.stats.misses = cache.stats.misses + 1
       ELSE /\ cache'.stats.hits = cache.stats.hits
            /\ cache'.stats.misses = cache.stats.misses]_vars

\* After a hit, a get of the same key two hours later found the entry
\* expired: it was dropped and counted as a miss.
C23_Witness ==
    /\ cache # <<>>
    /\ ret.op = "get"
    /\ ret.result = <<>>
    /\ cache.stats.hits = 1
    /\ cache.stats.misses = 1
    /\ cache.lru = <<>>
    /\ cache.current_memory > 0
    /\ now = 2 * TickLength

\* C24: invalidate_node(id) removes every entry whose key has node id `id`;
\* every entry of another node stays, with its outputs, and a get of its key
\* returns what it returned before.
C24_InvalidateNode ==
    [][(ret'.op = "invalidate_node" /\ calls' = calls + 1) =>
          \A key \in CacheKeys :
             IF key.node_id = ret'.args[1]
             THEN Held(cache', key) = {}
             ELSE /\ Held(cache', key) = Held(cache, key)
                  /\ cache_get(cache', key, now').result = cache_get(cache, key, now).result]_vars

\* invalidate_node on a cache holding one entry of the node and one of
\* another node: the other entry is what remains.
C24_Witness ==
    /\ cache # <<>>
    /\ ret.op = "invalidate_node"
    /\ calls = 3
    /\ Len(cache.lru) = 1
    /\ cache.lru[1].key.node_id # ret.args[1]
    /\ cache.current_memory = cache.lru[1].memory_size
    /\ cache.stats.evictions = 0

(***************************************************************************)
(* Claims about the memory tracker.                                        *)
(***************************************************************************)
\* The step is the successful compare-and-swap on current of thread t.
CommitsNow(t) ==
    /\ tracker.threads[t].pc = "cas"
    /\ tracker'.threads[t] # tracker.threads[t]
    /\ tracker'.current # tracker.current

\* The step is the return of false from try_allocate of thread t.
RejectsNow(t) ==
    /\ ret'.op = "try_allocate"
    /\ ret'.args[1] = t
    /\ ret'.result = FALSE
    /\ tracker'.threads[t].pc = "idle"
    /\ tracker.threads[t].pc = "cas" \/ calls' = calls + 1

\* The amount thread t asks for in the step.
AskedNow(t) == IF tracker.threads[t].pc = "idle" THEN ret'.args[2] ELSE tracker.threads[t].bytes

\* C25: under any interleaving of try_allocate calls and releases of granted
\* amounts, current is the sum of the amounts granted and not released, and
\* current and peak never exceed the limit; the compare-and-swap of
\* try_allocate(n) succeeds only with current + n <= limit at that moment,
\* and adds n; a try_allocate is rejected with current + n > limit at its
\* last reading, and no step of a call that ends rejected changes current
\* or peak.
C25_TrackerBound ==
    [][/\ tracker'.current <= tracker'.limit
       /\ tracker'.peak <= tracker'.limit
       /\ \A t \in Threads :
             /\ CommitsNow(t) =>
                   /\ tracker.current + tracker.threads[t].bytes <= tracker.limit
                   /\ tracker'.current = tracker.current + tracker.threads[t].bytes
                   /\ \/ tracker'.threads[t].pc = "peak"
                      \/ ret'.op = "try_allocate" /\ ret'.result = TRUE
             /\ RejectsNow(t) =>
                   /\ tracker.current + AskedNow(t) > tracker.limit
                   /\ tracker'.current = tracker.current
                   /\ tracker'.peak = tracker.peak
             /\ (tracker.threads[t].pc = "cas" /\ ~CommitsNow(t)
                    /\ tracker'.threads[t] # tracker.threads[t]) =>
                   /\ tracker'.current = tracker.current
                   /\ tracker'.peak = tracker.peak
       /\ (\A t \in Threads : tracker'.threads[t].pc \in {"idle", "cas"}) =>
             tracker'.current = SumGranted(tracker'.granted, Threads \X Amounts)]_vars

\* Both threads hold grants that fill the tracker up to its limit, and the
\* last of the allowed calls was rejected.
C25_Witness ==
    /\ tracker # <<>>
    /\ tracker.current = tracker.limit
    /\ tracker.peak = tracker.limit
    /\ \A t \in Threads : \E a \in Amounts : tracker.granted[t][a] > 0
    /\ ret.op = "try_allocate"
    /\ ret.result = FALSE
    /\ calls = MaxAllocs

\* The step is release(a) by thread t.
ReleasesNow(t, a) == tracker'.granted[t][a] = tracker.granted[t][a] - 1

\* The step is the return of true from try_allocate(a) of thread t.
GrantedNow(t, a) == tracker'.granted[t][a] = tracker.granted[t][a] + 1

\* C26: release(n) of a granted amount lowers current by exactly n and the
\* successful compare-and-swap of try_allocate(n) raises it by exactly n, so
\* that an allocation followed by its release leaves current where it was
\* (current is the sum of the amounts granted and not released, whatever was
\* allocated and released in between); peak never decreases, is at least
\* the value a call raised current to when that call returns, and is not
\* changed by release.
C26_ReleaseRestores ==
    [][/\ tracker'.peak >= tracker.peak
       /\ \A t \in Threads :
             /\ CommitsNow(t) =>
                   tracker'.current = tracker.current + tracker.threads[t].bytes
             /\ \A a \in Amounts :
                   /\ ReleasesNow(t, a) =>
                         /\ tracker'.current = tracker.current - a
                         /\ tracker'.current >= 0
                         /\ tracker'.peak = tracker.peak
                   /\ GrantedNow(t, a) =>
                         tracker'.peak >= tracker.threads[t].current + a
       /\ (\A t \in Threads : tracker'.threads[t].pc = "idle") =>
             /\ tracker'.current = SumGranted(tracker'.granted, Threads \X Amounts)
             /\ tracker'.peak >= tracker'.current]_vars

\* A release has brought current back below the peak while the other thread
\* still holds a grant.
C26_Witness ==
    /\ tracker # <<>>
    /\ ret.op = "release"
    /\ tracker.current > 0
    /\ tracker.current = SumGranted(tracker.granted, Threads \X Amounts)
    /\ tracker.peak = tracker.limit
    /\ tracker.peak > tracker.current
    /\ \A t \in Threads : tracker.threads[t].pc = "idle"
    /\ tracker.granted[ret.args[1]][ret.args[2]] = 0

(***************************************************************************)
(* Claims about tiles and chunked processing.                              *)
(***************************************************************************)
\* The pixels of the image the iterator walks over.
ImagePixels(it) == (0 .. (it.image_width - 1)) \X (0 .. (it.image_height - 1))

\* Tile i comes before tile j in raster order.
RasterBefore(s, i, j) == s[i].y < s[j].y \/ (s[i].y = s[j].y /\ s[i].x < s[j].x)

\* C28: for any image width and height and tile width and height of at least
\* 1, when the iterator has returned None it has yielded exactly tile_count()
\* tiles, in raster order, each within the image, pairwise disjoint and
\* together covering every pixel of the image.
C28_TileIterator ==
    (chunked # <<>> /\ chunked.done) =>
        LET s == chunked.yielded
        IN  /\ Len(s) = tile_count(chunked.it)
            /\ \A i \in 1..Len(s) :
                  /\ right(s[i]) <= chunked.it.image_width
                  /\ bottom(s[i]) <= chunked.it.image_height
            /\ \A i, j \in 1..Len(s) :
                  i < j => /\ RasterBefore(s, i, j)
                           /\ PixelsOf(s[i]) \cap PixelsOf(s[j]) = {}
            /\ UNION {PixelsOf(s[i]) : i \in 1..Len(s)} = ImagePixels(chunked.it)

\* process_pointwise has returned Ok with the image of the sink.
PointwiseSucceeded ==
    /\ chunked # <<>>
    /\ chunked.phase = "returned"
    /\ ret.op = "process_pointwise"
    /\ ret.result[1] = "Ok"

\* C27: whenever process_pointwise succeeds, for whatever image size, tile
\* size, overlap and memory limit, the image returned has the dimensions of
\* the source and each of its pixels is the pixel function applied to the
\* pixel of the source at the same place.
C27_PointwiseEquivalence ==
    PointwiseSucceeded =>
        LET image == ret.result[2]
        IN  /\ image.width = chunked.image_width
            /\ image.height = chunked.image_height
            /\ \A p \in DOMAIN image.px :
                  image.px[p] = process_pixel(SourcePixel(p[1], p[2]))

(***************************************************************************)
(* Claims about the validation pipeline.                                   *)
(***************************************************************************)
\* The errors a stage result carries.
ErrorsOf(result) == IF result[1] = "Err" THEN result[2] ELSE <<>>

\* The errors of the stages from stage i on, in stage order.
RECURSIVE ErrorsFrom(_, _)
ErrorsFrom(results, i) ==
    IF i > Len(results) THEN <<>> ELSE ErrorsOf(results[i]) \o ErrorsFrom(results, i + 1)

\* The three kinds of error that stop the pipeline.
Fatal(error) == error.kind \in {"CycleDetected", "InsufficientMemory", "NoOutputNodes"}

\* Some stage among the first i reports a fatal error.
FatalWithin(results, i) ==
    \E j \in 1..i : \E k \in 1..Len(ErrorsOf(results[j])) : Fatal(ErrorsOf(results[j])[k])

\* C29: the stages run in the order structural, type, constraint, custom,
\* resource; when a stage reports a fatal error (CycleDetected,
\* InsufficientMemory, NoOutputNodes) the report is returned at once: its last
\* error is that fatal error, everything before it is the errors reported up
\* to there in order, no later stage has run and nothing follows the fatal
\* error in the report.
C29_FatalStops ==
    validation # <<>> =>
        LET v == validation
            all == ErrorsFrom(v.results, 1)
            n == Len(v.report.errors)
        IN  /\ v.stages = <<"StructuralValidation", "TypeValidation", "ConstraintValidation",
                            "CustomValidation", "ResourceValidation">>
            /\ IsPrefix(v.ran, v.stages)
            /\ IsPrefix(v.report.errors, all)
            /\ \A k \in 1..n : Fatal(v.report.errors[k]) => k = n /\ v.returned
            /\ FatalWithin(v.results, Len(v.ran)) =>
                  /\ v.returned
                  /\ n > 0
                  /\ Fatal(v.report.errors[n])
                  /\ ~FatalWithin(v.results, Len(v.ran) - 1)
                  /\ ret.op = "validate"
                  /\ ret.result = v.report

\* The custom stage reported a fatal error between two other errors after
\* earlier stages reported three errors; the resource stage, which has an
\* error to report, did not run.
C29_Witness ==
    /\ validation # <<>>
    /\ validation.returned
    /\ validation.ran = SubSeq(validation.stages, 1, 4)
    /\ Len(validation.results[4][2]) = 3
    /\ validation.results[5][1] = "Err"
    /\ Len(validation.report.errors) = 5
    /\ validation.report.errors[5].kind = "InsufficientMemory"

\* C30: when no stage reports a fatal error, validate returns after every
\* stage has run, whatever errors earlier stages reported; the errors of the
\* report are the errors of all the stages, concatenated in stage order; and
\* success is true exactly when the report has no error.
C30_Accumulates ==
    validation # <<>> =>
        LET v == validation
        IN  /\ v.report.success <=> v.report.errors = <<>>
            /\ (v.returned /\ ~FatalWithin(v.results, Len(v.results))) =>
                  /\ v.ran = v.stages
                  /\ v.report.errors = ErrorsFrom(v.results, 1)
                  /\ ret.op = "validate"
                  /\ ret.result = v.report
            /\ (~v.returned /\ ~FatalWithin(v.results, Len(v.ran))) =>
                  v.report.errors \o ErrorsFrom(v.results, Len(v.ran) + 1)
                      = ErrorsFrom(v.results, 1)

\* Four stages reported errors, none of them fatal, and every stage ran.
C30_Witness ==
    /\ validation # <<>>
    /\ validation.returned
    /\ validation.ran = validation.stages
    /\ ~validation.report.success
    /\ Len(validation.report.errors) = 5
    /\ validation.results[1][1] = "Err"
    /\ validation.results[5][1] = "Err"
    /\ validation.report.errors = ErrorsFrom(validation.results, 1)

(***************************************************************************)
(* Claims about parameter overrides and the cache.                         *)
(***************************************************************************)
\* What a run from a cold cache leaves in all_outputs: every node of the
\* order executes on the outputs of the nodes before it; a disabled node
\* leaves no output, a failed node no entry.
RECURSIVE cold_outputs(_, _)
cold_outputs(order, all_outputs) ==
    IF order = <<>> THEN all_outputs
    ELSE LET n == Head(order)
             result == filter_execute(get_node(n)[1].filter, n,
                                      gather_inputs(n, all_outputs),
                                      context_parameters(get_node(n)[1]))
         IN  cold_outputs(Tail(order),
                          IF n \in eng.disabled /\ eng.options.skip_disabled
                          THEN MapInsert(all_outputs, n, {})
                          ELSE IF IsOk(result) THEN MapInsert(all_outputs, n, result[2])
                          ELSE all_outputs)

\* One topological order of the graph.
SomeOrder ==
    (CHOOSE sorted \in {topological_sort(iter) : iter \in Orderings(Range(node_ids))} :
        IsOk(sorted))[2]

\* This step is the successful return of an execute.
ExecuteReturnsOk ==
    /\ eng.phase \in {"loop", "batch"}
    /\ eng'.phase = "idle"
    /\ ret'.op = "execute"
    /\ IsOk(ret'.result)

\* C31: with caching enabled, a run that returns Ok returns in all_outputs what
\* a run of the graph as it is now, parameter overrides included, returns from
\* a cold cache.
C31_ParametersInKey ==
    [][ExecuteReturnsOk /\ eng.options.use_cache
        => ret'.result[2].all_outputs = cold_outputs(SomeOrder, {})]_vars

(***************************************************************************)
(* Claims about the memory accounting of the cache.                        *)
(***************************************************************************)
\* C32: after any sequence of put, get, invalidate, invalidate_node and clear,
\* memory_usage() is the sum of memory_size over the entries the cache holds.
C32_MemoryAccounting == cache.current_memory = SumMemorySizes(cache.lru)

(***************************************************************************)
(* Claims about the mutexes of the cache.                                  *)
(***************************************************************************)
\* The mutex a thread is about to acquire, by where it stands.
LockWanted(t) ==
    LET pc == locks.threads[t].pc
    IN  IF pc \in {"put_cache", "put_insert", "get_cache", "invalidate_cache",
                   "invalidate_node_cache", "clear_cache"} THEN <<"cache">>
        ELSE IF pc \in {"put_current", "invalidate_current", "invalidate_node_current",
                        "clear_current"} THEN <<"current_memory">>
        ELSE IF pc \in {"put_stats", "get_stats"} THEN <<"stats">>
        ELSE <<>>

\* The thread that holds the mutex thread t waits for, 0 when t does not wait.
WaitsFor(t) ==
    IF LockWanted(t) = <<>> THEN 0 ELSE locks.holder[LockWanted(t)[1]]

\* Some threads wait for each other: each waits for a mutex held by one of them.
Deadlocked ==
    \E waiting \in SUBSET LockThreads :
        /\ waiting # {}
        /\ \A t \in waiting : WaitsFor(t) \in waiting

\* C33: no interleaving of concurrent calls of put, get, invalidate,
\* invalidate_node, clear, stats and memory_usage on one cache reaches a state
\* in which threads wait for each other's mutexes.
C33_NoDeadlock == ~Deadlocked

(***************************************************************************)
(* Claims about node_depth.                                                *)
(***************************************************************************)
\* The longest-path depth: 0 without incoming connection, else one more than
\* the deepest parent.
RECURSIVE LongestPathDepth(_)
LongestPathDepth(n) ==
    LET conns == connections_to(n)
    IN  IF conns = <<>> THEN 0
        ELSE 1 + MaxOf({LongestPathDepth(conns[i].from.node_id) : i \in 1..Len(conns)}, 0)

\* C34: node_depth(n) is the longest-path depth of n, and parallel_batches
\* places n in the batch of that index.
C34_NodeDepth ==
    /\ ret.op = "node_depth" /\ IsOk(ret.result)
        => ret.result[2] = LongestPathDepth(ret.args[1])
    /\ ret.op = "parallel_batches" /\ IsOk(ret.result)
        => \A n \in Range(node_ids) :
                /\ LongestPathDepth(n) + 1 <= Len(ret.result[2])
                /\ n \in Range(ret.result[2][LongestPathDepth(n) + 1])

(***************************************************************************)
(* Claims about the statistics of a run.                                   *)
(***************************************************************************)
\* execute has returned Ok and nothing was called since.
RunReturnedOk ==
    /\ eng.phase = "idle"
    /\ ret.op = "execute"
    /\ IsOk(ret.result)

\* The nodes the run skipped: disabled, or served from the cache.
SkippedNodes == {e[2] : e \in {ev \in Range(eng.events) : ev[1] = "NodeSkipped"}}

\* The nodes whose filter was invoked and returned Ok.
InvokedOk ==
    {n \in Range(eng.invoked) : \A i \in 1..Len(eng.errors) : eng.errors[i][1] # n}

\* C35: in the stats of a successful execute nodes_skipped is the number of
\* nodes skipped as disabled or served from the cache and nodes_executed the
\* number of nodes whose filter was invoked and succeeded; a disabled node is
\* never invoked.
C35_Stats ==
    RunReturnedOk =>
        /\ ret.result[2].stats.nodes_skipped = Cardinality(SkippedNodes)
        /\ ret.result[2].stats.nodes_executed = Cardinality(InvokedOk)
        /\ eng.options.skip_disabled => eng.disabled \cap Range(eng.invoked) = {}

(***************************************************************************)
(* Claims about cancellation inside a filter.                              *)
(***************************************************************************)
\* The nodes whose filter holds its context and is about to run or running.
InFilter == {n \in DOMAIN eng.local : eng.local[n].pc = "invoke"}

ChunkedReturned == chunked.phase = "returned"

\* C37: the usage of the tracker is 0 whenever process_chunked returns, on
\* success and on every error path.
C37_ReleasedOnEveryPath == ChunkedReturned => chunked.tracker.current = 0

(***************************************************************************)
(* Claims about when an image is split.                                    *)
(***************************************************************************)
\* This step is the start of process_chunked: the tiles have been collected.
TilesCollected == chunked.phase = "new" /\ chunked'.phase = "loop"

\* C38: process_chunked splits the image into more than one tile exactly when
\* needs_chunking holds (footprint above memory_limit / 2); otherwise the
\* whole image is one tile.
C38_SplitsWhenNeedsChunking ==
    [][TilesCollected =>
        /\ Len(chunked'.tiles) > 1
            <=> needs_chunking(chunked.config, chunked.image_width, chunked.image_height)
        /\ ~needs_chunking(chunked.config, chunked.image_width, chunked.image_height)
            => chunked'.tiles = <<TileRegion(0, 0, chunked.image_width, chunked.image_height)>>]_vars

(***************************************************************************)
(* Claims about the warnings of the structural stage.                      *)
(***************************************************************************)
\* The warnings of the report, as a set.
ReportedWarnings == Range(validation.report.warnings)

\* C39: the warnings of the structural stage are in the report whenever their
\* condition holds (more than one disconnected subgraph, a disabled node with
\* downstream connections), whether or not the stage also reports errors.
C39_WarningsWithErrors ==
    validation.returned =>
        /\ Cardinality(find_subgraphs) > 1 => SubgraphsWarning \in ReportedWarnings
        /\ \A n \in validation.disabled :
                connections_from(n) # <<>> => DisabledWarning(n) \in ReportedWarnings

(***************************************************************************)
(* Claims about the parallel and the sequential mode.                      *)
(***************************************************************************)
\* Every filter of the graph succeeds when the nodes run in dependency order.
AllSucceed ==
    /\ {p[1] : p \in cold_outputs(SomeOrder, {})} = Range(node_ids)
    /\ eng.disabled = {}

\* The first execute on an engine with a new cache has returned, and it was
\* not cancelled.
ColdRunReturned ==
    /\ eng.phase = "idle"
    /\ ret.op = "execute"
    /\ Len(eng.results) = 1
    /\ ret.result # Err(Cancelled)

\* C40: on a graph whose filters all succeed, a run from a cold cache returns
\* the same result in the parallel and in the sequential mode: all_outputs is
\* what the filters compute in dependency order, outputs is its part on the
\* terminal nodes, every node is counted as executed and none as a cache hit.
C40_ModesAgree ==
    ColdRunReturned /\ AllSucceed =>
        /\ IsOk(ret.result)
        /\ ret.result[2].all_outputs = cold_outputs(SomeOrder, {})
        /\ ret.result[2].outputs =
                {p \in cold_outputs(SomeOrder, {}) : p[1] \in Range(terminal_nodes)}
        /\ ret.result[2].errors = <<>>
        /\ ret.result[2].stats.nodes_executed = Len(nodes)
        /\ ret.result[2].stats.cache_hits = 0

\* A parallel run with two nodes in one batch, and a sequential run of the
\* same kind of graph, are among the runs compared.
C40_Witness ==
    /\ ColdRunReturned
    /\ AllSucceed
    /\ IsOk(ret.result)
    /\ eng.options.parallel
    /\ eng.options.use_cache
    /\ \E i \in 1..Len(eng.plan) : Len(eng.plan[i]) > 1

====
